---- MODULE Spec2Model ----
(***************************************************************************)
(* Study analytics of the learning platform: the session store, the two    *)
(* analytics services (apis/analytics/lambda and backend/src) and the      *)
(* weekly-analytics cache, as a state machine.                             *)
(*                                                                         *)
(* A calendar date is its ordinal: the number of days since 2023-01-01     *)
(* (ordinal 0, a Sunday).  timedelta arithmetic is integer arithmetic on   *)
(* ordinals; year, month and day are recovered as datetime.date does.      *)
(***************************************************************************)
EXTENDS Integers, Sequences, FiniteSets, TLC

VARIABLES
    store,        \* the Timer and Records tables: sequence of raw items, in sort-key order
    today,        \* date.today(), an ordinal
    now,          \* datetime.now(), in seconds
    enableCache,  \* settings.ENABLE_CACHE
    cache,        \* CacheService._cache: key (week_start) -> cache item, as a set of entries
    result,       \* outcome of the last operation
    table,        \* the LearningPlatform table of the records and roadmap APIs: sequence of items
    requests      \* the create_record invocations in progress, one per client

vars == <<store, today, now, enableCache, cache, result, table, requests>>

-----------------------------------------------------------------------------
(* Bounds of the model *)

MaxItems == 2          \* stored raw items
StreakWindow == 3      \* the lookback window of get_study_streak_data (90 days in the code), scaled
MaxTicks == 3          \* clock advances
MaxHits == 2           \* cache hits counted per entry
MaxSessions == 3       \* items in the store of the productivity specification
MaxSubjects == 6       \* items in the store of the subject specification
MaxStudyDays == 7      \* days that can hold a session in the consistency specification
MaxScenarioItems == 5  \* items in the store of the scenario specification
MaxClients == 2        \* concurrent invocations of the records API
MaxRecords == 2        \* record items in the LearningPlatform table
MaxRoadmaps == 1       \* roadmap items in the LearningPlatform table
CacheLimit == 2        \* the entries CacheService.set keeps (100 in the code), scaled

\* no invocation in progress
IdleClients == [client \in 1..MaxClients |-> [pc |-> "idle"]]

-----------------------------------------------------------------------------
(* Calendar: datetime.date on ordinals *)

Years == 2023..2026

IsLeap(y) == (y % 4 = 0) /\ ((y % 100 # 0) \/ (y % 400 = 0))

DaysInYear(y) == IF IsLeap(y) THEN 366 ELSE 365

DaysInMonth(y, m) ==
    IF m = 2 THEN (IF IsLeap(y) THEN 29 ELSE 28)
    ELSE IF m \in {4, 6, 9, 11} THEN 30 ELSE 31

\* days from 2023-01-01 to January 1st of year y (y >= 2023)
DaysBeforeYear(y) ==
    LET n == y - 1
    IN  (365 * n + n \div 4 - n \div 100 + n \div 400) - 738520

\* datetime._DAYS_BEFORE_MONTH
DaysBeforeMonthTable == <<0, 31, 59, 90, 120, 151, 181, 212, 243, 273, 304, 334>>

\* days from January 1st of year y to the first of month m
DaysBeforeMonth(y, m) == DaysBeforeMonthTable[m] + (IF m > 2 /\ IsLeap(y) THEN 1 ELSE 0)

\* date(y, m, d) as an ordinal
DateOf(y, m, d) == DaysBeforeYear(y) + DaysBeforeMonth(y, m) + (d - 1)

\* the ordinals of the modelled years
Days == 0..(DaysBeforeYear(2027) - 1)

\* date.fromordinal: <<year, month, day>> of every ordinal
Calendar ==
    [n \in Days |->
        LET y == CHOOSE yy \in Years : DaysBeforeYear(yy) <= n /\ n < DaysBeforeYear(yy + 1)
            r == n - DaysBeforeYear(y)
            m == CHOOSE mm \in 1..12 :
                    DaysBeforeMonth(y, mm) <= r /\ r < DaysBeforeMonth(y, mm) + DaysInMonth(y, mm)
        IN  <<y, m, r - DaysBeforeMonth(y, m) + 1>>]

YearOf(n) == Calendar[n][1]

MonthOf(n) == Calendar[n][2]

DayOf(n) == Calendar[n][3]

\* date.weekday(): Monday is 0
Weekday(n) == (n + 6) % 7

\* d.replace(day=1)
FirstOfMonth(n) == DateOf(YearOf(n), MonthOf(n), 1)

\* d.strftime("%Y-%m"): the key orders as <<year, month>>
MonthKey(n) == <<YearOf(n), MonthOf(n)>>

-----------------------------------------------------------------------------
(* The store.  A raw item is a DynamoDB item of the Timer table (completed  *)
(* timer sessions) or of the Records table, with the attributes the         *)
(* analytics services read:                                                 *)
(*   src       "timer" | "record"                                           *)
(*   skDate    the date in the item's sort key RECORD#<date>... (records)   *)
(*   date      the 'date' attribute; dateForm says whether it is an ISO     *)
(*             date, a string strptime rejects ("malformed": the ISO date   *)
(*             followed by junk, so it sorts right after that date), or     *)
(*             absent                                                       *)
(*   start     hour of 'start_time' (timer) or 'created_at' (record), with  *)
(*             startForm "iso" | "malformed" | "absent"                     *)
(*   dur       the 'duration' attribute, minutes                            *)
(*   subject   the 'subject' attribute                                      *)

Item(src, skDate, date, dateForm, start, startForm, dur, subject) ==
    [src |-> src, skDate |-> skDate, date |-> date, dateForm |-> dateForm,
     start |-> start, startForm |-> startForm, dur |-> dur, subject |-> subject]

\* A well-formed completed timer item dated d, started at hour h
TimerItem(d, h, dur, subject) == Item("timer", d, d, "iso", h, "iso", dur, subject)

\* A well-formed record item dated d, created at hour h, stored under sort-key date d
RecordItem(d, h, dur, subject) == Item("record", d, d, "iso", h, "iso", dur, subject)

RECURSIVE SumDur(_)
\* sum(session.duration for session in sessions)
SumDur(s) == IF s = <<>> THEN 0 ELSE Head(s).dur + SumDur(Tail(s))

Range(s) == {s[i] : i \in DOMAIN s}

-----------------------------------------------------------------------------
(* apis/analytics/lambda: DynamoDBService *)

\* Attr('date').between(start.isoformat(), end.isoformat()) on the raw string
DateAttrBetween(item, range) ==
    CASE item.dateForm = "iso"       -> range[1] <= item.date /\ item.date <= range[2]
      [] item.dateForm = "malformed" -> range[1] <= item.date /\ item.date < range[2]
      [] OTHER                       -> FALSE

\* Key('SK').between("RECORD#<start>", "RECORD#<end>Z")
SortKeyBetween(item, range) == range[1] <= item.skDate /\ item.skDate <= range[2]

\* StudySession(...) of one raw timer item: <<session>>, or <<>> when the
\* constructor raises ValueError/TypeError (strptime on the date, fromisoformat
\* on start_time, or pydantic on start_time=None) and the item is skipped
ParseTimerItem(item) ==
    IF item.dateForm = "iso" /\ item.startForm = "iso"
    THEN <<[date |-> item.date, start |-> item.start, dur |-> item.dur,
            subject |-> item.subject, src |-> "timer"]>>
    ELSE <<>>

\* StudySession(...) of one raw record item: start_time is created_at, or
\* midnight of the date when created_at is absent
ParseRecordItem(item) ==
    IF item.dateForm = "iso" /\ item.startForm # "malformed"
    THEN <<[date |-> item.date,
            start |-> IF item.startForm = "iso" THEN item.start ELSE 0,
            dur |-> item.dur, subject |-> item.subject, src |-> "record"]>>
    ELSE <<>>

RECURSIVE ParseTimerItems(_)
ParseTimerItems(items) ==
    IF items = <<>> THEN <<>> ELSE ParseTimerItem(Head(items)) \o ParseTimerItems(Tail(items))

RECURSIVE ParseRecordItems(_)
ParseRecordItems(items) ==
    IF items = <<>> THEN <<>> ELSE ParseRecordItem(Head(items)) \o ParseRecordItems(Tail(items))

\* _get_timer_sessions: a ClientError of the query is caught and gives []
GetTimerSessions(items, from, to, fail) ==
    LET Hit(item) == item.src = "timer" /\ DateAttrBetween(item, <<from, to>>)
    IN  IF fail THEN <<>> ELSE ParseTimerItems(SelectSeq(items, Hit))

\* _get_record_sessions: a ClientError of the query is caught and gives []
GetRecordSessions(items, from, to, fail) ==
    LET Hit(item) == item.src = "record" /\ SortKeyBetween(item, <<from, to>>)
    IN  IF fail THEN <<>> ELSE ParseRecordItems(SelectSeq(items, Hit))

\* the sort key (x.date, x.start_time or datetime.min); start_time is kept to the hour
SessionKeyLeq(a, b) == a.date < b.date \/ (a.date = b.date /\ a.start <= b.start)

RECURSIVE InsertSorted(_, _)
\* insert x after every element that is not greater: keeps list.sort stable
InsertSorted(sorted, x) ==
    IF sorted = <<>> THEN <<x>>
    ELSE IF SessionKeyLeq(Head(sorted), x)
         THEN <<Head(sorted)>> \o InsertSorted(Tail(sorted), x)
         ELSE <<x>> \o sorted

RECURSIVE SortSessions(_)
SortSessions(s) ==
    IF s = <<>> THEN <<>> ELSE InsertSorted(SortSessions(SubSeq(s, 1, Len(s) - 1)), s[Len(s)])

\* get_study_sessions_by_date_range
GetStudySessionsByDateRange(items, from, to, fail) ==
    SortSessions(GetTimerSessions(items, from, to, fail) \o GetRecordSessions(items, from, to, fail))

\* set(session.date for session in sessions)
SessionDates(sessions) == {sessions[i].date : i \in DOMAIN sessions}

RECURSIVE WalkBack(_, _)
\* while check_date in study_dates: streak += 1; check_date -= 1 day
WalkBack(dates, d) == IF d \in dates THEN 1 + WalkBack(dates, d - 1) ELSE 0

Max(a, b) == IF a >= b THEN a ELSE b
Min(a, b) == IF a <= b THEN a ELSE b

RECURSIVE ScanWindow(_, _, _, _, _)
\* for i in range(window): check end_date - i; temp_streak / longest_streak
ScanWindow(dates, end, i, temp, longest) ==
    IF i >= StreakWindow THEN longest
    ELSE IF (end - i) \in dates
         THEN ScanWindow(dates, end, i + 1, temp + 1, Max(longest, temp + 1))
         ELSE ScanWindow(dates, end, i + 1, 0, longest)

RECURSIVE SortedDates(_)
\* sorted(set of dates)
SortedDates(S) ==
    IF S = {} THEN <<>>
    ELSE LET m == CHOOSE x \in S : \A y \in S : x <= y
         IN  <<m>> \o SortedDates(S \ {m})

\* get_study_streak_data: sessions of [today - window, today]; the except
\* branch (all zeros) is taken only when the fetch raises something else than
\* the ClientError it already swallows
GetStudyStreakDataValue(items, day, fail) ==
    LET sessions == GetStudySessionsByDateRange(items, day - StreakWindow, day, fail)
        study_dates == SessionDates(sessions)
    IN  [current_streak   |-> WalkBack(study_dates, day),
         longest_streak   |-> ScanWindow(study_dates, day, 0, 0, 0),
         total_study_days |-> Cardinality(study_dates),
         study_dates      |-> SortedDates(study_dates)]

-----------------------------------------------------------------------------
(* apis/analytics/lambda: AnalyticsService.  A float rounded to one decimal *)
(* (round(x, 1)) is kept as its number of tenths.                           *)

\* round(num / den, 1) in tenths, for num >= 0 and den > 0: nearest, ties to even
RoundTenths(num, den) ==
    LET q == (10 * num) \div den
        r == (10 * num) % den
    IN  IF 2 * r > den THEN q + 1
        ELSE IF 2 * r < den THEN q
        ELSE IF q % 2 = 0 THEN q ELSE q + 1

\* the first day of the month after the month of month_start (lines 98-101)
NextMonthStart(month_start) ==
    IF MonthOf(month_start) = 12
    THEN DateOf(YearOf(month_start) + 1, 1, 1)
    ELSE DateOf(YearOf(month_start), MonthOf(month_start) + 1, 1)

\* the body of the loop of generate_monthly_trends for index i
MonthlyTrendAt(items, day, i, fail) ==
    LET end_date == FirstOfMonth(day)
        month_start == FirstOfMonth(end_date - 32 * i)
        month_end == NextMonthStart(month_start) - 1
        sessions == GetStudySessionsByDateRange(items, month_start, month_end, fail)
        total_duration == SumDur(sessions)
        study_days == Cardinality(SessionDates(sessions))
        days_in_month == (month_end - month_start) + 1
    IN  [month                  |-> MonthKey(month_start),
         total_duration         |-> total_duration,
         session_count          |-> Len(sessions),
         average_daily_duration |-> IF days_in_month > 0
                                    THEN RoundTenths(total_duration, days_in_month) ELSE 0,
         study_days             |-> study_days,
         consistency_score      |-> IF days_in_month > 0
                                    THEN RoundTenths(study_days * 100, days_in_month) ELSE 0]

MonthKeyLeq(a, b) == a[1] < b[1] \/ (a[1] = b[1] /\ a[2] <= b[2])

RECURSIVE InsertTrend(_, _)
InsertTrend(sorted, t) ==
    IF sorted = <<>> THEN <<t>>
    ELSE IF MonthKeyLeq(Head(sorted).month, t.month)
         THEN <<Head(sorted)>> \o InsertTrend(Tail(sorted), t)
         ELSE <<t>> \o sorted

RECURSIVE SortTrends(_)
\* sorted(trends, key=lambda x: x.month)
SortTrends(trends) ==
    IF trends = <<>> THEN <<>>
    ELSE InsertTrend(SortTrends(SubSeq(trends, 1, Len(trends) - 1)), trends[Len(trends)])

\* generate_monthly_trends
GenerateMonthlyTrendsValue(items, day, months_back, fail) ==
    SortTrends([k \in 1..months_back |-> MonthlyTrendAt(items, day, k - 1, fail)])

\* the sessions of a list dated d, in list order
SessionsOn(sessions, d) == SelectSeq(sessions, LAMBDA x : x.date = d)

\* one DailySummary of _calculate_daily_summaries
DailySummaryOf(sessions, d) ==
    LET day_sessions == SessionsOn(sessions, d)
        total_duration == SumDur(day_sessions)
        session_count == Len(day_sessions)
    IN  [date                     |-> d,
         total_duration           |-> total_duration,
         session_count            |-> session_count,
         subjects                 |-> {day_sessions[i].subject : i \in DOMAIN day_sessions},
         average_session_duration |-> IF session_count > 0
                                      THEN RoundTenths(total_duration, session_count) ELSE 0]

\* a variant whose loop stops before week_end (current_date < week_end)
DailySummariesBeforeEnd(sessions, week_start, week_end) ==
    IF week_start >= week_end THEN <<>>
    ELSE [k \in 1..(week_end - week_start) |-> DailySummaryOf(sessions, week_start + k - 1)]

\* _calculate_daily_summaries: one summary per day while current_date <= week_end
CalculateDailySummaries(sessions, week_start, week_end) ==
    IF week_start > week_end THEN <<>>
    ELSE [k \in 1..(week_end - week_start + 1) |-> DailySummaryOf(sessions, week_start + k - 1)]

\* round(num / den * 100, 1) in tenths for any sign of num, den > 0
RoundPctTenths(num, den) ==
    IF num >= 0 THEN RoundTenths(100 * num, den) ELSE 0 - RoundTenths(100 * (0 - num), den)

\* a variant that takes the trend from the change of the session count
WeekComparisonTrendBySessions(current_sessions, previous_sessions) ==
    LET current_duration == SumDur(current_sessions)
        previous_duration == SumDur(previous_sessions)
        duration_change == current_duration - previous_duration
        session_change == Len(current_sessions) - Len(previous_sessions)
    IN  [duration_change            |-> duration_change,
         duration_change_percentage |-> IF previous_duration > 0
                                        THEN RoundPctTenths(duration_change, previous_duration)
                                        ELSE 0,
         session_change             |-> session_change,
         trend                      |-> IF session_change > 0 THEN "improving"
                                        ELSE IF session_change < 0 THEN "declining"
                                        ELSE "stable"]

\* _calculate_week_comparison
CalculateWeekComparison(current_sessions, previous_sessions) ==
    LET current_duration == SumDur(current_sessions)
        previous_duration == SumDur(previous_sessions)
        duration_change == current_duration - previous_duration
    IN  [duration_change            |-> duration_change,
         duration_change_percentage |-> IF previous_duration > 0
                                        THEN RoundPctTenths(duration_change, previous_duration)
                                        ELSE 0,
         session_change             |-> Len(current_sessions) - Len(previous_sessions),
         trend                      |-> IF duration_change > 0 THEN "improving"
                                        ELSE IF duration_change < 0 THEN "declining"
                                        ELSE "stable"]

\* A dict (insertion-ordered) is a sequence of [key, val, n] entries:
\* d[key] += v, creating the entry at the end when the key is new; n counts the additions
DictAdd(dict, k, v) ==
    IF \E i \in DOMAIN dict : dict[i].key = k
    THEN [i \in DOMAIN dict |->
             IF dict[i].key = k
             THEN [key |-> k, val |-> dict[i].val + v, n |-> dict[i].n + 1]
             ELSE dict[i]]
    ELSE Append(dict, [key |-> k, val |-> v, n |-> 1])

RECURSIVE InsertBeforeEqual(_, _)
\* a variant that puts an entry before the entries of equal value
InsertBeforeEqual(sorted, e) ==
    IF sorted = <<>> THEN <<e>>
    ELSE IF Head(sorted).val > e.val
         THEN <<Head(sorted)>> \o InsertBeforeEqual(Tail(sorted), e)
         ELSE <<e>> \o sorted

RECURSIVE InsertByValueDesc(_, _)
\* insert e after every entry whose value is not smaller
InsertByValueDesc(sorted, e) ==
    IF sorted = <<>> THEN <<e>>
    ELSE IF Head(sorted).val >= e.val
         THEN <<Head(sorted)>> \o InsertByValueDesc(Tail(sorted), e)
         ELSE <<e>> \o sorted

RECURSIVE SortByValueDesc(_)
\* sorted(d, key=d.get, reverse=True): stable, so equal values keep insertion order
SortByValueDesc(dict) ==
    IF dict = <<>> THEN <<>>
    ELSE InsertByValueDesc(SortByValueDesc(SubSeq(dict, 1, Len(dict) - 1)), dict[Len(dict)])

\* lst[:n]
Take(lst, n) == SubSeq(lst, 1, Min(n, Len(lst)))

Keys(dict) == [i \in DOMAIN dict |-> dict[i].key]

RECURSIVE SubjectData(_, _)
\* subject_data[session.subject] accumulated over the sessions, given the dict so far
SubjectData(sessions, dict) ==
    IF sessions = <<>> THEN dict
    ELSE SubjectData(Tail(sessions), DictAdd(dict, Head(sessions).subject, Head(sessions).dur))

RECURSIVE SumVal(_)
SumVal(dict) == IF dict = <<>> THEN 0 ELSE Head(dict).val + SumVal(Tail(dict))

\* _calculate_top_subjects: the entries are built in dict order and sorted by
\* duration, descending and stable; here the dict is sorted and then mapped
CalculateTopSubjects(sessions) ==
    LET subject_data == SubjectData(sessions, <<>>)
        total_duration == SumVal(subject_data)
        ordered == Take(SortByValueDesc(subject_data), 5)
    IN  [i \in DOMAIN ordered |->
            [subject    |-> ordered[i].key,
             duration   |-> ordered[i].val,
             sessions   |-> ordered[i].n,
             percentage |-> IF total_duration > 0
                            THEN RoundTenths(100 * ordered[i].val, total_duration)
                            ELSE 0]]

\* the largest r in lo..hi with r * r <= n, for lo * lo <= n < (hi + 1) * (hi + 1)
RECURSIVE FloorSqrtIn(_, _, _)
FloorSqrtIn(n, lo, hi) ==
    IF lo >= hi THEN lo
    ELSE LET mid == (lo + hi + 1) \div 2
         IN  IF mid * mid <= n THEN FloorSqrtIn(n, mid, hi) ELSE FloorSqrtIn(n, lo, mid - 1)

\* the total_duration of the summaries with total_duration > 0 (line 342)
StudyDurations(daily_summaries) ==
    SelectSeq([i \in DOMAIN daily_summaries |-> daily_summaries[i].total_duration],
              LAMBDA x : x > 0)

RECURSIVE SumSquares(_)
SumSquares(durations) ==
    IF durations = <<>> THEN 0
    ELSE Head(durations) * Head(durations) + SumSquares(Tail(durations))

RECURSIVE SumOf(_)
SumOf(durations) == IF durations = <<>> THEN 0 ELSE Head(durations) + SumOf(Tail(durations))

\* lines 343-350.  With n durations of sum s and sum of squares q the variance
\* is (n*q - s*s) / n^2 and cv = sqrt(n*q - s*s) / s, so cv < 0.5 is
\* 4 * (n*q - s*s) < s*s and the bonus is 10 - 20 * cv.  The bonus is a float
\* that is not rounded: it is kept as the pair of the tenths below and above it.
StabilityBonus(durations) ==
    LET n == Len(durations)
        s == SumOf(durations)
        dev == n * SumSquares(durations) - s * s
    IN  IF n > 1 /\ 4 * dev < s * s
        THEN LET sq == (40000 * dev) \div (s * s)          \* floor((200 * cv)^2), < 10000
                 below == FloorSqrtIn(sq, 0, 100)         \* floor(200 * cv)
                 exact == below * below * s * s = 40000 * dev
             IN  [lo |-> 100 - (IF exact THEN below ELSE below + 1), hi |-> 100 - below]
        ELSE [lo |-> 0, hi |-> 0]

\* a variant that returns base_consistency + stability_bonus without the cap
StudyConsistencyUncapped(daily_summaries) ==
    LET total_days == Len(daily_summaries)
        study_days == Len(StudyDurations(daily_summaries))
        bonus == StabilityBonus(StudyDurations(daily_summaries))
    IN  IF total_days = 0 THEN [lo |-> 0, hi |-> 0]
        ELSE [lo |-> (1000 * study_days) \div total_days + bonus.lo,
              hi |-> (1000 * study_days + total_days - 1) \div total_days + bonus.hi]

\* _calculate_study_consistency: min(100, study_days / total_days * 100 + bonus),
\* as the tenths below and above the float returned; 0.0 for no summaries
CalculateStudyConsistency(daily_summaries) ==
    LET total_days == Len(daily_summaries)
        study_days == Len(StudyDurations(daily_summaries))
        bonus == StabilityBonus(StudyDurations(daily_summaries))
    IN  IF total_days = 0 THEN [lo |-> 0, hi |-> 0]
        ELSE [lo |-> Min(1000, (1000 * study_days) \div total_days + bonus.lo),
              hi |-> Min(1000, (1000 * study_days + total_days - 1) \div total_days + bonus.hi)]

\* week_start defaults to the Monday of the current week (lines 34-36); 0 - 1 stands for None
NoDate == 0 - 1

WeekStartOrDefault(week_start, day) == IF week_start = NoDate THEN day - Weekday(day) ELSE week_start

\* generate_weekly_analytics past the cache check (lines 47-77)
ComputeWeeklyAnalytics(items, week_start, fail) ==
    LET week_end == week_start + 6
        study_sessions == GetStudySessionsByDateRange(items, week_start, week_end, fail)
        previous_week_data == GetStudySessionsByDateRange(items, week_start - 7, week_start - 1, fail)
        daily_summaries == CalculateDailySummaries(study_sessions, week_start, week_end)
    IN  [week_start      |-> week_start,
         week_end        |-> week_end,
         total_duration  |-> SumDur(study_sessions),
         daily_summaries |-> daily_summaries,
         top_subjects    |-> CalculateTopSubjects(study_sessions),
         study_consistency |-> CalculateStudyConsistency(daily_summaries),
         comparison_with_previous_week |-> CalculateWeekComparison(study_sessions, previous_week_data)]

RECURSIVE HourlyProductivity(_, _)
\* hourly_productivity[session.start_time.hour] += session.duration
HourlyProductivity(sessions, dict) ==
    IF sessions = <<>> THEN dict
    ELSE HourlyProductivity(Tail(sessions), DictAdd(dict, Head(sessions).start, Head(sessions).dur))

RECURSIVE DailyProductivity(_, _)
\* daily_productivity[session.date.strftime('%A')] += session.duration; the day name is its weekday number
DailyProductivity(sessions, dict) ==
    IF sessions = <<>> THEN dict
    ELSE DailyProductivity(Tail(sessions),
                           DictAdd(dict, Weekday(Head(sessions).date), Head(sessions).dur))

RECURSIVE InsertDur(_, _)
InsertDur(sorted, x) ==
    IF sorted = <<>> THEN <<x>>
    ELSE IF Head(sorted) <= x THEN <<Head(sorted)>> \o InsertDur(Tail(sorted), x)
         ELSE <<x>> \o sorted

RECURSIVE DurationsAsMet(_)
\* a variant that leaves the durations in the order of the sessions
DurationsAsMet(sessions) ==
    IF sessions = <<>> THEN <<>>
    ELSE <<Head(sessions).dur>> \o DurationsAsMet(Tail(sessions))

RECURSIVE SortedDurations(_)
\* session_durations.sort()
SortedDurations(sessions) ==
    IF sessions = <<>> THEN <<>>
    ELSE InsertDur(SortedDurations(Tail(sessions)), Head(sessions).dur)

\* min(peak_hours)
MinOf(lst) == CHOOSE x \in Range(lst) : \A y \in Range(lst) : x <= y

\* a variant that appends the generic message whatever the rules gave
SuggestionsAlwaysWithGeneric(peak_hours, optimal_session_length, total_sessions, period_days) ==
    LET length_rule == IF optimal_session_length < 25 THEN <<"lengthen_sessions">>
                       ELSE IF optimal_session_length > 60 THEN <<"shorten_sessions">>
                       ELSE <<>>
        low_frequency == IF period_days > 0 THEN 2 * total_sessions < period_days ELSE TRUE
        frequency_rule == IF low_frequency THEN <<"increase_frequency">> ELSE <<>>
        hours_rule == IF peak_hours # <<>> /\ MinOf(peak_hours) >= 20
                      THEN <<"try_earlier_hours">> ELSE <<>>
    IN  IF period_days = 0
        THEN [outcome |-> "raise", exc |-> "ZeroDivisionError", val |-> <<>>]
        ELSE [outcome |-> "ok", exc |-> "",
              val |-> length_rule \o frequency_rule \o hours_rule \o <<"maintain_pattern">>]

\* _generate_improvement_suggestions: [outcome, exc, val]; total_sessions / period_days
\* raises ZeroDivisionError for period_days = 0
GenerateImprovementSuggestions(peak_hours, optimal_session_length, total_sessions, period_days) ==
    LET length_rule == IF optimal_session_length < 25 THEN <<"lengthen_sessions">>
                       ELSE IF optimal_session_length > 60 THEN <<"shorten_sessions">>
                       ELSE <<>>
        \* total_sessions / period_days < 0.5, total_sessions >= 0
        low_frequency == IF period_days > 0 THEN 2 * total_sessions < period_days ELSE TRUE
        frequency_rule == IF low_frequency THEN <<"increase_frequency">> ELSE <<>>
        hours_rule == IF peak_hours # <<>> /\ MinOf(peak_hours) >= 20
                      THEN <<"try_earlier_hours">> ELSE <<>>
        suggestions == length_rule \o frequency_rule \o hours_rule
    IN  IF period_days = 0
        THEN [outcome |-> "raise", exc |-> "ZeroDivisionError", val |-> <<>>]
        ELSE [outcome |-> "ok", exc |-> "",
              val |-> IF suggestions = <<>> THEN <<"maintain_pattern">> ELSE suggestions]

\* generate_productivity_metrics: [outcome, exc, val]
GenerateProductivityMetrics(items, day, analysis_period_days, fail) ==
    LET study_sessions == GetStudySessionsByDateRange(items, day - analysis_period_days, day, fail)
        \* every StudySession has a start_time (a required field), so the test of line 156 holds
        hourly_productivity == HourlyProductivity(study_sessions, <<>>)
        session_durations == SortedDurations(study_sessions)
        daily_productivity == DailyProductivity(study_sessions, <<>>)
        peak_hours == Take(Keys(SortByValueDesc(hourly_productivity)), 3)
        optimal_session_length ==
            IF session_durations # <<>>
            THEN session_durations[(Len(session_durations) \div 2) + 1] ELSE 0
        best_days == Take(Keys(SortByValueDesc(daily_productivity)), 3)
        focus_score ==
            IF session_durations # <<>>
            THEN Min(1000, RoundTenths(100 * SumDur(study_sessions), 45 * Len(study_sessions)))
            ELSE 0
        suggestions == GenerateImprovementSuggestions(
                           peak_hours, optimal_session_length, Len(study_sessions),
                           analysis_period_days)
    IN  [outcome |-> suggestions.outcome, exc |-> suggestions.exc,
         val |-> [peak_hours              |-> peak_hours,
                  optimal_session_length  |-> optimal_session_length,
                  best_study_days         |-> best_days,
                  focus_score             |-> focus_score,
                  improvement_suggestions |-> suggestions.val]]

\* users_table item 'study_goals', or the defaults when the profile has none
\* or the read fails (get_user_goals)
DefaultGoals == [daily_target_minutes |-> 60, weekly_target_minutes |-> 420]

\* a variant of the entry whose achievement_rate is not capped at 100
GoalTrackingUncapped(goal_type, target, current) ==
    [goal_type         |-> goal_type,
     target_value      |-> target,
     current_value     |-> current,
     achievement_rate  |-> <<100 * current, target>>,
     is_achieved       |-> current >= target,
     remaining_to_goal |-> Max(0, target - current)]

\* one GoalTracking entry; achievement_rate is the pair <<numerator, denominator>>
\* of min(100, current / target * 100): the quotient reaches 100 when
\* current >= target for a positive target, current <= target for a negative
GoalTrackingOf(goal_type, target, current) ==
    [goal_type         |-> goal_type,
     target_value      |-> target,
     current_value     |-> current,
     achievement_rate  |-> IF (target > 0 /\ current >= target) \/ (target < 0 /\ current <= target)
                           THEN <<100, 1>> ELSE <<100 * current, target>>,
     is_achieved       |-> current >= target,
     remaining_to_goal |-> Max(0, target - current)]

\* track_goals: [outcome, exc, val]; current / target raises ZeroDivisionError for a target of 0
TrackGoals(items, day, user_goals, fail) ==
    LET has_daily == "daily_target_minutes" \in DOMAIN user_goals
        has_weekly == "weekly_target_minutes" \in DOMAIN user_goals
        daily_duration == SumDur(GetStudySessionsByDateRange(items, day, day, fail))
        weekly_duration ==
            SumDur(GetStudySessionsByDateRange(items, day - Weekday(day), day, fail))
        daily == IF has_daily
                 THEN <<GoalTrackingOf("daily", user_goals.daily_target_minutes, daily_duration)>>
                 ELSE <<>>
        weekly == IF has_weekly
                  THEN <<GoalTrackingOf("weekly", user_goals.weekly_target_minutes, weekly_duration)>>
                  ELSE <<>>
    IN  IF DOMAIN user_goals = {}
        THEN [outcome |-> "ok", exc |-> "", val |-> <<>>]
        ELSE IF \/ (has_daily /\ user_goals.daily_target_minutes = 0)
                \/ (has_weekly /\ user_goals.weekly_target_minutes = 0)
        THEN [outcome |-> "raise", exc |-> "ZeroDivisionError", val |-> <<>>]
        ELSE [outcome |-> "ok", exc |-> "", val |-> daily \o weekly]

-----------------------------------------------------------------------------
(* apis/analytics/lambda: AnalyticsService charts.  A float y that the code  *)
(* obtains by a division is kept as the pair [num, den].                     *)

\* d[key] of a defaultdict(int): 0 for a key that was never added
DictGet(dict, k) ==
    IF \E i \in DOMAIN dict : dict[i].key = k
    THEN dict[CHOOSE i \in DOMAIN dict : dict[i].key = k].val
    ELSE 0

RECURSIVE DailyDurations(_, _)
\* daily_durations[session.date] += session.duration
DailyDurations(sessions, dict) ==
    IF sessions = <<>> THEN dict
    ELSE DailyDurations(Tail(sessions), DictAdd(dict, Head(sessions).date, Head(sessions).dur))

\* _generate_daily_duration_chart: one point per day while current_date <= end_date
GenerateDailyDurationChart(study_sessions, start_date, end_date) ==
    LET daily_durations == DailyDurations(study_sessions, <<>>)
    IN  [i \in 1..(IF start_date <= end_date THEN (end_date - start_date) + 1 ELSE 0) |->
            [x |-> start_date + (i - 1),
             y |-> [num |-> DictGet(daily_durations, start_date + (i - 1)), den |-> 60]]]

RECURSIVE SubjectDurations(_, _)
\* subject_durations[session.subject] += session.duration
SubjectDurations(sessions, dict) ==
    IF sessions = <<>> THEN dict
    ELSE SubjectDurations(Tail(sessions), DictAdd(dict, Head(sessions).subject, Head(sessions).dur))

\* _generate_subject_distribution_chart: points in dict order, sorted by
\* value descending (stable); here the dict is sorted and then mapped
GenerateSubjectDistributionChart(study_sessions) ==
    LET subject_durations == SubjectDurations(study_sessions, <<>>)
        total_duration == SumVal(subject_durations)
        ordered == SortByValueDesc(subject_durations)
    IN  [i \in DOMAIN ordered |->
            [x     |-> ordered[i].key,
             y     |-> IF total_duration > 0
                       THEN [num |-> 100 * ordered[i].val, den |-> total_duration]
                       ELSE [num |-> 0, den |-> 1],
             value |-> ordered[i].val]]

\* a variant that emits a point only for the hours that have a session
SparseHourlyDistributionChart(study_sessions) ==
    LET hourly_durations == HourlyProductivity(study_sessions, <<>>)
    IN  [i \in DOMAIN hourly_durations |->
            [x |-> hourly_durations[i].key, y |-> hourly_durations[i].val]]

\* _generate_hourly_distribution_chart: for hour in range(24); x is "HH:00"
GenerateHourlyDistributionChart(study_sessions) ==
    LET hourly_durations == HourlyProductivity(study_sessions, <<>>)
    IN  [i \in 1..24 |-> [x |-> i - 1, y |-> DictGet(hourly_durations, i - 1)]]

\* the sessions of week i of _generate_weekly_comparison_chart: the list it
\* was handed for i = 0, a query of the Monday-to-Sunday week otherwise
WeekSessions(items, day, current_sessions, i, fail) ==
    LET week_start == day - (Weekday(day) + 7 * i)
    IN  IF i = 0 THEN current_sessions
        ELSE GetStudySessionsByDateRange(items, week_start, week_start + 6, fail)

\* _generate_weekly_comparison_chart: weeks_data for i in range(4), reversed;
\* point k is week i = 4 - k; the label strftime('%m/%d') is <<month, day>>
GenerateWeeklyComparisonChart(items, day, current_sessions, fail) ==
    [k \in 1..4 |->
        LET i == 4 - k
            week_start == day - (Weekday(day) + 7 * i)
        IN  [x |-> <<MonthOf(week_start), DayOf(week_start)>>,
             y |-> [num |-> SumDur(WeekSessions(items, day, current_sessions, i, fail)),
                    den |-> 60]]]

ValidChartTypes ==
    {"daily_duration", "subject_distribution", "hourly_distribution", "weekly_comparison"}

\* generate_chart_data: the sessions of [today - period_days, today]
GenerateChartData(items, day, chart_type, period_days, fail) ==
    LET end_date == day
        start_date == end_date - period_days
        study_sessions == GetStudySessionsByDateRange(items, start_date, end_date, fail)
    IN  CASE chart_type = "daily_duration" ->
                [outcome |-> "ok", exc |-> "",
                 val |-> GenerateDailyDurationChart(study_sessions, start_date, end_date)]
          [] chart_type = "subject_distribution" ->
                [outcome |-> "ok", exc |-> "",
                 val |-> GenerateSubjectDistributionChart(study_sessions)]
          [] chart_type = "hourly_distribution" ->
                [outcome |-> "ok", exc |-> "",
                 val |-> GenerateHourlyDistributionChart(study_sessions)]
          [] chart_type = "weekly_comparison" ->
                [outcome |-> "ok", exc |-> "",
                 val |-> GenerateWeeklyComparisonChart(items, day, study_sessions, fail)]
          [] OTHER -> [outcome |-> "raise", exc |-> "ValueError", val |-> <<>>]

-----------------------------------------------------------------------------
(* apis/analytics/lambda: CacheService.  _cache is an insertion-ordered     *)
(* dict: a sequence of entries, one per key.                                *)

WeeklyCacheTtl == 3600

\* settings.CACHE_TTL_SECONDS, the default of the environment
CacheTtlSeconds == 300

CacheIndex(c, key) == CHOOSE i \in DOMAIN c : c[i].key = key

CacheHas(c, key) == \E i \in DOMAIN c : c[i].key = key

\* del self._cache[key]
CacheDel(c, key) == SelectSeq(c, LAMBDA e : e.key # key)

\* a variant of get without the TTL check
CacheGetIgnoringTtl(c, key, t) ==
    IF ~CacheHas(c, key)
    THEN [hit |-> FALSE, data |-> <<>>, cache |-> c]
    ELSE LET i == CacheIndex(c, key)
         IN  [hit |-> TRUE, data |-> c[i].data,
              cache |-> [c EXCEPT ![i].hit_count = @ + 1, ![i].last_accessed = t]]

\* get: [hit, data, cache]; an expired entry is deleted, a live one counts the hit
CacheGet(c, key, t) ==
    IF ~CacheHas(c, key)
    THEN [hit |-> FALSE, data |-> <<>>, cache |-> c]
    ELSE LET i == CacheIndex(c, key)
         IN  IF t > c[i].expires_at
             THEN [hit |-> FALSE, data |-> <<>>, cache |-> CacheDel(c, key)]
             ELSE [hit |-> TRUE, data |-> c[i].data,
                   cache |-> [c EXCEPT ![i].hit_count = @ + 1, ![i].last_accessed = t]]

\* a variant of the eviction that takes the last of the entries with the
\* least created_at
EvictLastOldest(c) ==
    IF c = <<>> THEN c
    ELSE LET i == CHOOSE k \in DOMAIN c :
                     /\ \A j \in DOMAIN c : c[k].created_at <= c[j].created_at
                     /\ \A j \in (k + 1)..Len(c) : c[j].created_at > c[k].created_at
         IN  CacheDel(c, c[i].key)

\* _evict_oldest: delete the entry with the least created_at, the first of them in dict order
EvictOldest(c) ==
    IF c = <<>> THEN c
    ELSE LET i == CHOOSE k \in DOMAIN c :
                     /\ \A j \in DOMAIN c : c[k].created_at <= c[j].created_at
                     /\ \A j \in 1..(k - 1) : c[j].created_at > c[k].created_at
         IN  CacheDel(c, c[i].key)

\* set: the entry replaces the one of the same key in place, or is appended;
\* above the limit the oldest entry is evicted.  last_accessed None is 0 - 1
CacheSet(c, key, data, ttl, t) ==
    LET entry == [key |-> key, data |-> data, created_at |-> t, expires_at |-> t + ttl,
                  ttl |-> ttl, hit_count |-> 0, last_accessed |-> 0 - 1]
        written == IF CacheHas(c, key) THEN [c EXCEPT ![CacheIndex(c, key)] = entry]
                   ELSE Append(c, entry)
    IN  IF Len(written) > CacheLimit THEN EvictOldest(written) ELSE written

\* exists: [exists, cache]; an expired entry is deleted
CacheExists(c, key, t) ==
    IF ~CacheHas(c, key) THEN [exists |-> FALSE, cache |-> c]
    ELSE IF t > c[CacheIndex(c, key)].expires_at
    THEN [exists |-> FALSE, cache |-> CacheDel(c, key)]
    ELSE [exists |-> TRUE, cache |-> c]

\* cleanup_expired: [count, cache]
CleanupExpired(c, t) ==
    [count |-> Len(SelectSeq(c, LAMBDA e : t > e.expires_at)),
     cache |-> SelectSeq(c, LAMBDA e : ~(t > e.expires_at))]

-----------------------------------------------------------------------------
(* backend/src: DynamoDBService.  The dictionaries keep the raw 'date' and  *)
(* 'start_time' strings; only timer dictionaries carry 'start_time'.        *)

RecordDict(item) == [item EXCEPT !.start = 0, !.startForm = "absent"]

RECURSIVE RecordDicts(_)
RecordDicts(items) ==
    IF items = <<>> THEN <<>> ELSE <<RecordDict(Head(items))>> \o RecordDicts(Tail(items))

\* get_records_by_date_range: Key('SK').between(start_sk, end_sk + 'Z'); ClientError gives []
GetRecordsByDateRange(items, from, to, fail) ==
    LET Hit(item) == item.src = "record" /\ SortKeyBetween(item, <<from, to>>)
    IN  IF fail THEN <<>> ELSE RecordDicts(SelectSeq(items, Hit))

\* get_timer_data_by_date_range: Attr('date').between(...), completed only; ClientError gives []
GetTimerDataByDateRange(items, from, to, fail) ==
    LET Hit(item) == item.src = "timer" /\ DateAttrBetween(item, <<from, to>>)
    IN  IF fail THEN <<>> ELSE SelectSeq(items, Hit)

\* _get_study_data_for_period: records, then timer data
GetStudyDataForPeriod(items, from, to, fail) ==
    GetRecordsByDateRange(items, from, to, fail) \o GetTimerDataByDateRange(items, from, to, fail)

\* get_all_study_data: every record, then every completed timer; one try
\* block, so a ClientError of either query gives []
GetAllStudyData(items, fail) ==
    LET IsRecord(item) == item.src = "record"
        IsTimer(item) == item.src = "timer"
    IN  IF fail THEN <<>> ELSE RecordDicts(SelectSeq(items, IsRecord)) \o SelectSeq(items, IsTimer)

-----------------------------------------------------------------------------
(* backend/src: AnalyticsService streaks *)

RECURSIVE LongestRun(_, _, _, _)
\* for i in range(1, len(study_dates)): adjacent dates one day apart extend temp_streak
LongestRun(dates, i, temp, longest) ==
    IF i > Len(dates) THEN Max(longest, temp)
    ELSE IF dates[i] - dates[i - 1] = 1
         THEN LongestRun(dates, i + 1, temp + 1, longest)
         ELSE LongestRun(dates, i + 1, 1, Max(longest, temp))

\* _calculate_streaks: [outcome, exc, current, longest]; strptime on a
\* malformed 'date' raises ValueError out of the function
CalculateStreaks(data, day) ==
    LET present == SelectSeq(data, LAMBDA s : s.dateForm # "absent")
        study_set == {present[i].date : i \in DOMAIN present}
        study_dates == SortedDates(study_set)
        current == IF day \in study_set \/ (day - 1) \in study_set
                   THEN 1 + WalkBack(study_set, day - 1)
                   ELSE 0
    IN  IF data = <<>>
        THEN [outcome |-> "ok", exc |-> "", current |-> 0, longest |-> 0]
        ELSE IF \E i \in DOMAIN present : present[i].dateForm = "malformed"
        THEN [outcome |-> "raise", exc |-> "ValueError", current |-> 0, longest |-> 0]
        ELSE IF study_dates = <<>>
        THEN [outcome |-> "ok", exc |-> "", current |-> 0, longest |-> 0]
        ELSE [outcome |-> "ok", exc |-> "", current |-> current,
              longest |-> LongestRun(study_dates, 2, 1, 0)]

\* the raw 'date' strings of the dictionaries that have one
RawDateStrings(data) ==
    {<<data[i].date, data[i].dateForm>> : i \in {j \in DOMAIN data : data[j].dateForm # "absent"}}

\* _get_recent_study_dates(all_data, 30): unparsable dates are skipped
RecentStudyDates(data, day) ==
    SortedDates({data[i].date : i \in {j \in DOMAIN data :
                    data[j].dateForm = "iso" /\ data[j].date >= day - 30}})

\* get_study_streaks
GetStudyStreaksValue(items, day, fail) ==
    LET all_data == GetAllStudyData(items, fail)
        streaks == CalculateStreaks(all_data, day)
    IN  [outcome |-> streaks.outcome, exc |-> streaks.exc,
         val |-> [current_streak     |-> streaks.current,
                  longest_streak     |-> streaks.longest,
                  recent_study_dates |-> RecentStudyDates(all_data, day),
                  total_study_days   |-> Cardinality(RawDateStrings(all_data))]]

-----------------------------------------------------------------------------
(* backend/src: AnalyticsService summary, comparison, export *)

\* None for an hour
NoHour == 0 - 1

RECURSIVE HourlyDurations(_, _)
\* _find_most_productive_hour: hourly_durations[hour] += duration for the
\* dictionaries with a parsable start_time and duration > 0
HourlyDurations(data, dict) ==
    IF data = <<>> THEN dict
    ELSE IF Head(data).startForm = "iso" /\ Head(data).dur > 0
         THEN HourlyDurations(Tail(data), DictAdd(dict, Head(data).start, Head(data).dur))
         ELSE HourlyDurations(Tail(data), dict)

\* max(hourly_durations, key=hourly_durations.get): the first key with the greatest value
FindMostProductiveHour(data) ==
    LET hourly_durations == HourlyDurations(data, <<>>)
    IN  IF hourly_durations = <<>> THEN NoHour
        ELSE LET i == CHOOSE k \in DOMAIN hourly_durations :
                          /\ \A j \in DOMAIN hourly_durations :
                                hourly_durations[j].val <= hourly_durations[k].val
                          /\ \A j \in 1..(k - 1) :
                                hourly_durations[j].val < hourly_durations[k].val
             IN  hourly_durations[i].key

\* AnalyticsService.get_analytics_summary: no test of start_date against end_date
GetAnalyticsSummaryValue(items, day, start_date, end_date, fail) ==
    LET study_data == GetStudyDataForPeriod(items, start_date, end_date, fail)
        all_data == GetAllStudyData(items, fail)
        total_study_time == SumDur(study_data)
        streaks == CalculateStreaks(all_data, day)
        period_days == (end_date - start_date) + 1
    IN  [outcome |-> streaks.outcome, exc |-> streaks.exc,
         val |-> [total_study_time     |-> total_study_time,
                  total_sessions       |-> Len(study_data),
                  current_streak       |-> streaks.current,
                  longest_streak       |-> streaks.longest,
                  average_daily_study  |-> IF period_days > 0
                                           THEN RoundTenths(total_study_time, period_days)
                                           ELSE 0,
                  most_productive_hour |-> FindMostProductiveHour(study_data)]]

\* _calculate_comparison_stats
CalculateComparisonStats(current_data, previous_data) ==
    LET current_duration == SumDur(current_data)
        previous_duration == SumDur(previous_data)
        duration_change == current_duration - previous_duration
    IN  [current_week_duration      |-> current_duration,
         previous_week_duration     |-> previous_duration,
         duration_change            |-> duration_change,
         duration_change_percentage |-> IF previous_duration > 0
                                        THEN RoundPctTenths(duration_change, previous_duration)
                                        ELSE 0,
         current_week_sessions      |-> Len(current_data),
         previous_week_sessions     |-> Len(previous_data),
         session_change             |-> Len(current_data) - Len(previous_data)]

\* the sessions whose 'date' string is the ISO form of day (daily_data.get(date_str, []))
BackendSessionsOn(study_data, day) ==
    SelectSeq(study_data, LAMBDA session : session.dateForm = "iso" /\ session.date = day)

\* most_studied_subject is None for no data
NoSubject == "None"

\* a variant whose study_days counts the days of the week, with or without study
WeeklyStatsCountingAllDays(study_data, week_start, week_end) ==
    LET days == IF week_start <= week_end THEN (week_end - week_start) + 1 ELSE 0
        daily_sessions ==
            [k \in 1..days |->
                LET day_sessions == BackendSessionsOn(study_data, week_start + (k - 1))
                IN  [date           |-> week_start + (k - 1),
                     total_duration |-> SumDur(day_sessions),
                     session_count  |-> Len(day_sessions),
                     subjects       |-> {day_sessions[i].subject : i \in DOMAIN day_sessions}]]
        total_duration == SumVal([k \in 1..days |-> [val |-> daily_sessions[k].total_duration]])
        subject_durations == SortByValueDesc(SubjectData(study_data, <<>>))
    IN  [week_start               |-> week_start,
         week_end                 |-> week_end,
         total_duration           |-> total_duration,
         daily_sessions           |-> daily_sessions,
         average_session_duration |-> IF Len(study_data) > 0
                                      THEN RoundTenths(total_duration, Len(study_data)) ELSE 0,
         most_studied_subject     |-> IF subject_durations = <<>> THEN NoSubject
                                      ELSE subject_durations[1].key,
         study_days               |-> days]

\* _calculate_weekly_stats (lines 212-262): one summary per day of the week,
\* total_duration the sum of the days, study_days the days with a positive total
CalculateWeeklyStats(study_data, week_start, week_end) ==
    LET days == IF week_start <= week_end THEN (week_end - week_start) + 1 ELSE 0
        daily_sessions ==
            [k \in 1..days |->
                LET day_sessions == BackendSessionsOn(study_data, week_start + (k - 1))
                IN  [date           |-> week_start + (k - 1),
                     total_duration |-> SumDur(day_sessions),
                     session_count  |-> Len(day_sessions),
                     subjects       |-> {day_sessions[i].subject : i \in DOMAIN day_sessions}]]
        total_duration == SumVal([k \in 1..days |-> [val |-> daily_sessions[k].total_duration]])
        subject_durations == SortByValueDesc(SubjectData(study_data, <<>>))
    IN  [week_start               |-> week_start,
         week_end                 |-> week_end,
         total_duration           |-> total_duration,
         daily_sessions           |-> daily_sessions,
         average_session_duration |-> IF Len(study_data) > 0
                                      THEN RoundTenths(total_duration, Len(study_data)) ELSE 0,
         most_studied_subject     |-> IF subject_durations = <<>> THEN NoSubject
                                      ELSE subject_durations[1].key,
         study_days               |-> Cardinality({k \in 1..days :
                                                      daily_sessions[k].total_duration > 0})]

\* _calculate_subject_breakdown: per subject the duration, the sessions and the
\* share rounded to one decimal, sorted by duration, descending and stable
CalculateSubjectBreakdown(study_data) ==
    LET total_duration == SumDur(study_data)
        ordered == SortByValueDesc(SubjectData(study_data, <<>>))
    IN  [i \in DOMAIN ordered |->
            [subject       |-> ordered[i].key,
             duration      |-> ordered[i].val,
             session_count |-> ordered[i].n,
             percentage    |-> IF total_duration > 0
                               THEN RoundTenths(100 * ordered[i].val, total_duration) ELSE 0]]

\* the label f"{duration // 60}h {duration % 60}m" as its two numbers
HoursMinutes(duration) == [h |-> duration \div 60, m |-> duration % 60]

\* _generate_daily_chart_data: one point per day, the value in hours
GenerateDailyChartData(study_data, start_date, end_date) ==
    [k \in 1..(IF start_date <= end_date THEN (end_date - start_date) + 1 ELSE 0) |->
        LET duration == SumDur(BackendSessionsOn(study_data, start_date + (k - 1)))
        IN  [date  |-> start_date + (k - 1),
             value |-> [num |-> duration, den |-> 60],
             label |-> IF duration > 0 THEN HoursMinutes(duration) ELSE [m |-> 0]]]

\* _generate_subject_chart_data
GenerateSubjectChartData(subject_breakdown) ==
    [i \in DOMAIN subject_breakdown |->
        [date  |-> subject_breakdown[i].subject,
         value |-> [num |-> subject_breakdown[i].duration, den |-> 60],
         label |-> HoursMinutes(subject_breakdown[i].duration)]]

\* generate_weekly_report (lines 30-63)
GenerateWeeklyReportValue(items, day, week_start, fail) ==
    LET week_end == week_start + 6
        current_week_data == GetStudyDataForPeriod(items, week_start, week_end, fail)
        previous_week_data == GetStudyDataForPeriod(items, week_start - 7, week_start - 1, fail)
        summary == GetAnalyticsSummaryValue(items, day, week_start, week_end, fail)
        subject_breakdown == CalculateSubjectBreakdown(current_week_data)
    IN  [outcome |-> summary.outcome, exc |-> summary.exc,
         val |-> [summary            |-> summary.val,
                  weekly_stats       |-> CalculateWeeklyStats(current_week_data, week_start, week_end),
                  comparison         |-> CalculateComparisonStats(current_week_data, previous_week_data),
                  subject_breakdown  |-> subject_breakdown,
                  daily_chart_data   |-> GenerateDailyChartData(current_week_data, week_start, week_end),
                  subject_chart_data |-> GenerateSubjectChartData(subject_breakdown)]]

\* _get_weekly_comparison: this Monday-to-Sunday week against the one before
GetWeeklyComparison(items, day, fail) ==
    LET this_week_start == day - Weekday(day)
    IN  CalculateComparisonStats(
            GetStudyDataForPeriod(items, this_week_start, this_week_start + 6, fail),
            GetStudyDataForPeriod(items, this_week_start - 7, this_week_start - 1, fail))

\* _get_monthly_comparison: this month up to today against the whole last month
GetMonthlyComparison(items, day, fail) ==
    LET this_month_start == FirstOfMonth(day)
        last_month_end == this_month_start - 1
    IN  CalculateComparisonStats(
            GetStudyDataForPeriod(items, this_month_start, day, fail),
            GetStudyDataForPeriod(items, FirstOfMonth(last_month_end), last_month_end, fail))

\* AnalyticsService.get_comparison_data
GetComparisonDataValue(items, day, period, fail) ==
    IF period = "week"
    THEN [outcome |-> "ok", exc |-> "", val |-> GetWeeklyComparison(items, day, fail)]
    ELSE IF period = "month"
    THEN [outcome |-> "ok", exc |-> "", val |-> GetMonthlyComparison(items, day, fail)]
    ELSE [outcome |-> "raise", exc |-> "ValueError", val |-> <<>>]

\* AnalyticsService.export_analytics_data: the data for "json", the URL of
\* the export (it carries the user and the time) for "csv"
ExportAnalyticsDataValue(items, start_date, end_date, format, t, fail) ==
    LET study_data == GetStudyDataForPeriod(items, start_date, end_date, fail)
    IN  IF format = "json"
        THEN [outcome |-> "ok", exc |-> "", val |-> [data |-> study_data]]
        ELSE IF format = "csv"
        THEN [outcome |-> "ok", exc |-> "", val |-> [download_url |-> t]]
        ELSE [outcome |-> "raise", exc |-> "ValueError", val |-> <<>>]

RECURSIVE BackendHourlyDurations(_, _)
\* _calculate_hourly_distribution: hourly_durations[dt.hour] += duration for
\* the dictionaries with a parsable start_time
BackendHourlyDurations(data, dict) ==
    IF data = <<>> THEN dict
    ELSE IF Head(data).startForm = "iso"
         THEN BackendHourlyDurations(Tail(data), DictAdd(dict, Head(data).start, Head(data).dur))
         ELSE BackendHourlyDurations(Tail(data), dict)

\* _calculate_productivity_insights; most_productive_days is the fixed list
\* Monday, Tuesday, Wednesday
CalculateProductivityInsights(study_data) ==
    LET hourly_durations == BackendHourlyDurations(study_data, <<>>)
        session_lengths == SortedDurations(study_data)
        total_days == Cardinality(RawDateStrings(study_data))
        short == SumDur(study_data) < 30 * Len(study_data)
    IN  [peak_hours               |-> Take(Keys(SortByValueDesc(hourly_durations)), 3),
         preferred_session_length |-> IF session_lengths # <<>>
                                      THEN session_lengths[(Len(session_lengths) \div 2) + 1]
                                      ELSE 0,
         most_productive_days     |-> <<0, 1, 2>>,
         study_consistency_score  |-> Min(100, total_days * 5),
         recommendations          |-> IF study_data = <<>> THEN <<>>
                                      ELSE (IF short THEN <<"longer_sessions">> ELSE <<>>)
                                           \o (IF total_days < 5 THEN <<"study_regularly">>
                                               ELSE <<>>)]

\* _calculate_hourly_distribution: for hour in range(24); date is "HH:00",
\* value is duration / 60.0
CalculateHourlyDistribution(study_data) ==
    LET hourly_durations == BackendHourlyDurations(study_data, <<>>)
    IN  [i \in 1..24 |->
            [date |-> i - 1, value |-> [num |-> DictGet(hourly_durations, i - 1), den |-> 60]]]

\* the endpoints' handlers: "except ValueError" answers 400 and "except
\* Exception" answers 500; an HTTPException raised inside the try block is an
\* Exception and not a ValueError
SummaryEndpointStatus(exc) ==
    IF exc = "" THEN 200 ELSE IF exc = "ValueError" THEN 400 ELSE 500

\* the export endpoint has the "except Exception" handler alone
ExportEndpointStatus(exc) == IF exc = "" THEN 200 ELSE 500

-----------------------------------------------------------------------------
(* apis/records/lambda/main.py and apis/roadmap/lambda/main.py.              *)
(* An event is [api, method, path, id, user, query, body]: id is the          *)
(* recordId / roadmapId path parameter (NoId when absent), user the           *)
(* claims.sub of the authorizer (NoUser when absent).  A body is              *)
(* [json, data]: json is "none" (no body), "invalid" (not JSON), "scalar"     *)
(* (a JSON number or null) or "object", data the fields of the object.        *)
(* A JSON value of a numeric field is [t, v]: an integer v ("int"), a string  *)
(* of the digits of v ("str"), another string ("text"), null ("null") or a    *)
(* float of v tenths ("float"), or the float Infinity (v = 1) or -Infinity    *)
(* (v = -1) that json.loads accepts ("inf").  Hours are kept in minutes.      *)
(* Items carry the attributes the handlers decide on; content, tags,          *)
(* difficulty, satisfaction, notes, study_date and the timestamps are copied  *)
(* from the request or the clock and not carried.                             *)

NoUser == ""
NoId == 0

\* get_user_id: claims.get('sub'), None when a level of the event is missing
GetUserId(event) == event.user

\* int(value): [exc, v]
IntOf(value) ==
    CASE value.t \in {"int", "str"} -> [exc |-> "", v |-> value.v]
      [] value.t = "float" -> [exc |-> "",
                               v |-> IF value.v >= 0 THEN value.v \div 10
                                     ELSE 0 - ((0 - value.v) \div 10)]
      [] value.t = "text" -> [exc |-> "ValueError", v |-> 0]
      [] value.t = "inf" -> [exc |-> "OverflowError", v |-> 0]
      [] OTHER -> [exc |-> "TypeError", v |-> 0]

\* json.loads(body) if body else {}
BodyData(body) == IF body.json = "object" THEN body.data ELSE <<>>

\* the items of one kind ("RECORD", "ROADMAP") of a table
ItemsOfKind(t, kind) == SelectSeq(t, LAMBDA item : item.kind = kind)

\* get_item(Key={PK: USER#user, SK: kind#id}): the index of the item, 0 for none
GetItemIndex(t, user, kind, id) ==
    IF \E i \in DOMAIN t : t[i].kind = kind /\ t[i].user = user /\ t[i].id = id
    THEN CHOOSE i \in DOMAIN t : t[i].kind = kind /\ t[i].user = user /\ t[i].id = id
    ELSE 0

\* data.get('roadmap_id') and data.get('roadmap_item_title') are truthy
HasRoadmapItem(data) ==
    /\ "roadmap_id" \in DOMAIN data /\ data.roadmap_id # NoId
    /\ "roadmap_item_title" \in DOMAIN data /\ data.roadmap_item_title # ""

\* a response of an API: calls counts the table calls made for the request
ApiResult(op, event, status, dbFailed, calls, val) ==
    [op |-> op, arg |-> event, status |-> status, dbFailed |-> dbFailed, calls |-> calls,
     outcome |-> IF status = 200 THEN "ok" ELSE IF status < 500 THEN "invalid" ELSE "raise",
     exc |-> "", val |-> val]

\* create_record up to the put_item (lines 124-140): the status of a rejected
\* body, or 200 and the duration.  'field not in data' of a JSON number or
\* null raises TypeError and int() of an infinite float OverflowError, which
\* only lambda_handler (or create_record_from_template) catches (500).
CreateRecordCheck(body) ==
    LET data == BodyData(body)
    IN  IF body.json = "invalid" THEN [status |-> 400, duration_minutes |-> 0]
        ELSE IF body.json = "scalar" THEN [status |-> 500, duration_minutes |-> 0]
        ELSE IF "title" \notin DOMAIN data \/ "duration_minutes" \notin DOMAIN data
        THEN [status |-> 400, duration_minutes |-> 0]
        ELSE IF IntOf(data.duration_minutes).exc \in {"ValueError", "TypeError"}
        THEN [status |-> 400, duration_minutes |-> 0]
        ELSE IF IntOf(data.duration_minutes).exc # ""
        THEN [status |-> 500, duration_minutes |-> 0]
        ELSE IF IntOf(data.duration_minutes).v <= 0
        THEN [status |-> 400, duration_minutes |-> 0]
        ELSE [status |-> 200, duration_minutes |-> IntOf(data.duration_minutes).v]

\* the record item of create_record (lines 149-168); record_id is a fresh uuid
NewRecord(t, user, data, duration_minutes) ==
    [kind |-> "RECORD", user |-> user, id |-> Len(ItemsOfKind(t, "RECORD")) + 1,
     title |-> data.title,
     duration_minutes |-> duration_minutes,
     roadmap_id |-> IF "roadmap_id" \in DOMAIN data THEN data.roadmap_id ELSE NoId,
     roadmap_item_title |-> IF "roadmap_item_title" \in DOMAIN data
                            THEN data.roadmap_item_title ELSE "",
     status |-> "active"]

\* the default duration of a template (lines 418-449)
TemplateDuration(template_type) ==
    CASE template_type = "roadmap" -> 60
      [] template_type = "reading" -> 120
      [] template_type = "coding" -> 90
      [] OTHER -> 60

\* the fields of f, overwritten and extended by those of g
Override(f, g) == [k \in DOMAIN f \cup DOMAIN g |-> IF k \in DOMAIN g THEN g[k] ELSE f[k]]

\* the fields of a dict among a set of names
Restrict(data, fields) == [k \in DOMAIN data \cap fields |-> data[k]]

\* create_record_from_template up to the call of create_record: the status
\* of a rejected body, or 200 and the body handed to create_record; the
\* default title of a template is kept as the template type
RecordFromTemplate(body) ==
    LET data == BodyData(body)
        defaults == [title |-> data.template_type,
                     duration_minutes |-> [t |-> "int", v |-> TemplateDuration(data.template_type)]]
        record_data ==
            IF data.template_type = "roadmap"
            THEN Override(defaults, Restrict(data, {"roadmap_id", "roadmap_item_title"}))
            ELSE defaults
    IN  IF body.json = "invalid" THEN [status |-> 400, body |-> body]
        ELSE IF body.json = "scalar" THEN [status |-> 500, body |-> body]
        ELSE IF "template_type" \notin DOMAIN data THEN [status |-> 400, body |-> body]
        ELSE IF data.template_type \notin {"roadmap", "reading", "coding", "video"}
        THEN [status |-> 400, body |-> body]
        ELSE IF data.template_type = "roadmap" /\ ~HasRoadmapItem(data)
        THEN [status |-> 400, body |-> body]
        ELSE [status |-> 200,
              body |-> [json |-> "object",
                        data |-> Override(record_data,
                                          Restrict(data, {"title", "duration_minutes"}))]]

\* the response of a handler that has finished: its status, the table it
\* leaves, the table calls it made and whether one of them failed
Response(status, t, calls, dbFailed, val) ==
    [status |-> status, table |-> t, calls |-> calls, dbFailed |-> dbFailed, val |-> val]

\* get_record; fail_at is the table call that raises ClientError, 0 for none
GetRecord(t, user, id, fail_at) ==
    LET i == GetItemIndex(t, user, "RECORD", id)
    IN  IF fail_at = 1 THEN Response(500, t, 1, TRUE, <<>>)
        ELSE IF i = 0 \/ t[i].status = "deleted" THEN Response(404, t, 1, FALSE, <<>>)
        ELSE Response(200, t, 1, FALSE, t[i])

\* a variant of update_record that does not look at the status of the item
UpdateRecordIgnoringStatus(t, user, id, body, fail_at) ==
    LET data == BodyData(body)
        i == GetItemIndex(t, user, "RECORD", id)
        duration == IntOf(data.duration_minutes)
        given == Restrict(data, {"title", "roadmap_id", "roadmap_item_title"})
        fields == IF "duration_minutes" \in DOMAIN data
                  THEN Override(given, [duration_minutes |-> duration.v]) ELSE given
        updated == [t EXCEPT ![i] = Override(t[i], fields)]
    IN  IF body.json = "invalid" THEN Response(400, t, 0, FALSE, <<>>)
        ELSE IF fail_at = 1 THEN Response(500, t, 1, TRUE, <<>>)
        ELSE IF i = 0 THEN Response(404, t, 1, FALSE, <<>>)
        ELSE IF body.json = "scalar" THEN Response(500, t, 1, FALSE, <<>>)
        ELSE IF "duration_minutes" \in DOMAIN data /\ duration.exc = "OverflowError"
        THEN Response(500, t, 1, FALSE, <<>>)
        ELSE IF "duration_minutes" \in DOMAIN data /\ (duration.exc # "" \/ duration.v <= 0)
        THEN Response(400, t, 1, FALSE, <<>>)
        ELSE IF fail_at = 2 THEN Response(500, t, 2, TRUE, <<>>)
        ELSE IF fail_at = 3 THEN Response(500, updated, 3, TRUE, <<>>)
        ELSE Response(200, updated, 3, FALSE, updated[i])

\* update_record: json.loads, get_item, the validation of duration_minutes,
\* update_item of the fields given, get_item of the updated item
UpdateRecord(t, user, id, body, fail_at) ==
    LET data == BodyData(body)
        i == GetItemIndex(t, user, "RECORD", id)
        duration == IntOf(data.duration_minutes)
        given == Restrict(data, {"title", "roadmap_id", "roadmap_item_title"})
        fields == IF "duration_minutes" \in DOMAIN data
                  THEN Override(given, [duration_minutes |-> duration.v]) ELSE given
        updated == [t EXCEPT ![i] = Override(t[i], fields)]
    IN  IF body.json = "invalid" THEN Response(400, t, 0, FALSE, <<>>)
        ELSE IF fail_at = 1 THEN Response(500, t, 1, TRUE, <<>>)
        ELSE IF i = 0 \/ t[i].status = "deleted" THEN Response(404, t, 1, FALSE, <<>>)
        ELSE IF body.json = "scalar" THEN Response(500, t, 1, FALSE, <<>>)
        ELSE IF "duration_minutes" \in DOMAIN data /\ duration.exc = "OverflowError"
        THEN Response(500, t, 1, FALSE, <<>>)
        ELSE IF "duration_minutes" \in DOMAIN data /\ (duration.exc # "" \/ duration.v <= 0)
        THEN Response(400, t, 1, FALSE, <<>>)
        ELSE IF fail_at = 2 THEN Response(500, t, 2, TRUE, <<>>)
        ELSE IF fail_at = 3 THEN Response(500, updated, 3, TRUE, <<>>)
        ELSE Response(200, updated, 3, FALSE, updated[i])

\* delete_record: get_item, then update_item SET status = 'deleted'
DeleteRecord(t, user, id, fail_at) ==
    LET i == GetItemIndex(t, user, "RECORD", id)
    IN  IF fail_at = 1 THEN Response(500, t, 1, TRUE, <<>>)
        ELSE IF i = 0 \/ t[i].status = "deleted" THEN Response(404, t, 1, FALSE, <<>>)
        ELSE IF fail_at = 2 THEN Response(500, t, 2, TRUE, <<>>)
        ELSE Response(200, [t EXCEPT ![i].status = "deleted"], 2, FALSE, <<>>)

\* the newest first (ScanIndexForward=False): the table keeps creation order
Reverse(seq) == [k \in DOMAIN seq |-> seq[(Len(seq) - k) + 1]]

\* list_records: the query reads at most Limit items of the user, newest
\* first, then applies the roadmap_id filter; deleted items are dropped from
\* the answer.  The model's records share one study_date, so the date filter
\* of the query is not used.
ListRecords(t, user, query, fail_at) ==
    LET limit == IF "limit" \in DOMAIN query THEN IntOf(query.limit) ELSE [exc |-> "", v |-> 50]
        read == Take(Reverse(SelectSeq(t, LAMBDA item : item.kind = "RECORD" /\ item.user = user)),
                     Min(limit.v, 100))
        items == SelectSeq(read, LAMBDA item : "roadmap_id" \in DOMAIN query
                                                   => item.roadmap_id = query.roadmap_id)
        records == SelectSeq(items, LAMBDA item : item.status # "deleted")
        total_duration == SumVal([k \in DOMAIN records |-> [val |-> records[k].duration_minutes]])
    IN  IF limit.exc # "" THEN Response(500, t, 0, FALSE, <<>>)
        ELSE IF fail_at = 1 \/ limit.v < 1 THEN Response(500, t, 1, fail_at = 1, <<>>)
        ELSE Response(200, t, 1, FALSE,
                      [records     |-> [k \in DOMAIN records |-> records[k].id],
                       total_count |-> Len(records),
                       statistics  |->
                           [total_duration_minutes   |-> total_duration,
                            total_duration_hours     |-> RoundTenths(total_duration, 60),
                            average_duration_minutes |-> IF records # <<>>
                                                         THEN RoundTenths(total_duration, Len(records))
                                                         ELSE 0]])

\* get_user_roadmap_items: the items of the active roadmaps of the user; any
\* exception gives []
GetUserRoadmapItems(t, user, fail) ==
    LET roadmaps == SelectSeq(t, LAMBDA item : item.kind = "ROADMAP" /\ item.user = user
                                                   /\ item.status = "active")
    IN  IF fail THEN <<>>
        ELSE [k \in DOMAIN roadmaps |-> [roadmap_id |-> roadmaps[k].id, items |-> roadmaps[k].items]]

\* get_record_templates: the four templates, the roadmap one with the user's items
GetRecordTemplates(t, user, fail_at) ==
    Response(200, t, 1, fail_at = 1,
             [templates     |-> <<"roadmap", "reading", "coding", "video">>,
              total_count   |-> 4,
              roadmap_items |-> GetUserRoadmapItems(t, user, fail_at = 1)])

\* min(completed / estimated * 100, 100) as a fraction; 100 for estimated = 0
ItemProgress(completed, estimated) ==
    IF estimated <= 0 \/ completed >= estimated THEN [num |-> 100, den |-> 1]
    ELSE [num |-> 100 * completed, den |-> estimated]

\* completed / total * 100 as a fraction, 0 for a total of 0
OverallProgress(completed, total) ==
    IF total > 0 THEN [num |-> 100 * completed, den |-> total] ELSE [num |-> 0, den |-> 1]

\* the first item of the title, 0 for none (the loop of lines 579-589)
FirstItemTitled(items, item_title) ==
    IF \E k \in DOMAIN items : items[k].title = item_title
    THEN CHOOSE k \in DOMAIN items :
            items[k].title = item_title /\ \A l \in 1..(k - 1) : items[l].title # item_title
    ELSE 0

\* update_roadmap_progress between its get_item and its update_item (lines
\* 572-596), on the roadmap item it has read: the values it is about to write
ProgressUpdate(roadmap, item_title, minutes_to_add) ==
    LET k == FirstItemTitled(roadmap.items, item_title)
        new_completed == roadmap.items[k].completed_hours + minutes_to_add
        items == [roadmap.items EXCEPT ![k] =
                     [@ EXCEPT !.completed_hours = new_completed,
                               !.progress = ItemProgress(new_completed,
                                                          roadmap.items[k].estimated_hours)]]
        total_completed == SumVal([l \in DOMAIN items |-> [val |-> items[l].completed_hours]])
    IN  IF k = 0 THEN [updated |-> FALSE]
        ELSE [updated         |-> TRUE,
              items           |-> items,
              completed_hours |-> total_completed,
              progress        |-> OverallProgress(total_completed, roadmap.total_hours)]

\* float(value) of a number of hours, in minutes: [exc, v]
HoursOf(value) ==
    CASE value.t \in {"int", "str"} -> [exc |-> "", v |-> 60 * value.v]
      [] value.t = "float" -> [exc |-> "", v |-> 6 * value.v]
      [] value.t = "text" -> [exc |-> "ValueError", v |-> 0]
      [] OTHER -> [exc |-> "TypeError", v |-> 0]

\* item.get('completed_hours', 0) of a request item, in minutes
CompletedOf(item) ==
    IF "completed_hours" \in DOMAIN item THEN HoursOf(item.completed_hours) ELSE [exc |-> "", v |-> 0]

\* the checks of the items of create_roadmap and update_roadmap: every item
\* has a title and estimated_hours that float() accepts and that are positive
ItemsAccepted(rows, with_completed) ==
    \A k \in DOMAIN rows :
        /\ "title" \in DOMAIN rows[k] /\ "estimated_hours" \in DOMAIN rows[k]
        /\ HoursOf(rows[k].estimated_hours).exc = ""
        /\ with_completed => CompletedOf(rows[k]).exc = ""
        /\ HoursOf(rows[k].estimated_hours).v > 0

SumEstimated(rows) ==
    SumVal([k \in DOMAIN rows |-> [val |-> HoursOf(rows[k].estimated_hours).v]])

SumCompleted(rows) == SumVal([k \in DOMAIN rows |-> [val |-> CompletedOf(rows[k]).v]])

\* the roadmap item of create_roadmap (lines 165-183): completed_hours of the
\* items as given, progress 0 everywhere; roadmap_id is a fresh uuid
NewRoadmap(t, user, title, rows) ==
    [kind |-> "ROADMAP", user |-> user, id |-> Len(ItemsOfKind(t, "ROADMAP")) + 1,
     title |-> title,
     items |-> [k \in DOMAIN rows |->
                   [title           |-> rows[k].title,
                    estimated_hours |-> HoursOf(rows[k].estimated_hours).v,
                    completed_hours |-> CompletedOf(rows[k]).v,
                    progress        |-> [num |-> 0, den |-> 1]]],
     total_hours     |-> SumEstimated(rows),
     completed_hours |-> 0,
     progress        |-> [num |-> 0, den |-> 1],
     status          |-> "active"]

\* create_roadmap
CreateRoadmap(t, user, body, fail_at) ==
    LET data == BodyData(body)
    IN  IF body.json = "invalid" THEN Response(400, t, 0, FALSE, <<>>)
        ELSE IF body.json = "scalar" THEN Response(500, t, 0, FALSE, <<>>)
        ELSE IF "title" \notin DOMAIN data \/ "items" \notin DOMAIN data
        THEN Response(400, t, 0, FALSE, <<>>)
        ELSE IF ~data.items.list \/ data.items.rows = <<>> THEN Response(400, t, 0, FALSE, <<>>)
        ELSE IF ~ItemsAccepted(data.items.rows, FALSE) THEN Response(400, t, 0, FALSE, <<>>)
        ELSE IF fail_at = 1 THEN Response(500, t, 1, TRUE, <<>>)
        ELSE Response(200, Append(t, NewRoadmap(t, user, data.title, data.items.rows)), 1, FALSE,
                      NewRoadmap(t, user, data.title, data.items.rows))

\* list_roadmaps: at most Limit roadmaps of the user, newest first, of the
\* status asked for ('active' by default, 'all' for every status)
ListRoadmaps(t, user, query, fail_at) ==
    LET limit == IF "limit" \in DOMAIN query THEN IntOf(query.limit) ELSE [exc |-> "", v |-> 20]
        status_filter == IF "status" \in DOMAIN query THEN query.status ELSE "active"
        read == Take(Reverse(SelectSeq(t, LAMBDA item : item.kind = "ROADMAP" /\ item.user = user)),
                     Min(limit.v, 100))
        roadmaps == SelectSeq(read, LAMBDA item : status_filter = "all" \/ item.status = status_filter)
    IN  IF limit.exc # "" THEN Response(500, t, 0, FALSE, <<>>)
        ELSE IF fail_at = 1 \/ limit.v < 1 THEN Response(500, t, 1, fail_at = 1, <<>>)
        ELSE Response(200, t, 1, FALSE,
                      [roadmaps    |-> [k \in DOMAIN roadmaps |->
                                           [roadmap_id      |-> roadmaps[k].id,
                                            total_hours     |-> roadmaps[k].total_hours,
                                            completed_hours |-> roadmaps[k].completed_hours,
                                            progress        |-> roadmaps[k].progress,
                                            items_count     |-> Len(roadmaps[k].items),
                                            status          |-> roadmaps[k].status]],
                       total_count |-> Len(roadmaps)])

\* get_roadmap: the item, whatever its status
GetRoadmap(t, user, id, fail_at) ==
    LET i == GetItemIndex(t, user, "ROADMAP", id)
    IN  IF fail_at = 1 THEN Response(500, t, 1, TRUE, <<>>)
        ELSE IF i = 0 THEN Response(404, t, 1, FALSE, <<>>)
        ELSE Response(200, t, 1, FALSE, t[i])

\* update_roadmap: with 'items' in the body the items are replaced and
\* total_hours, completed_hours and progress recomputed from them
UpdateRoadmap(t, user, id, body, fail_at) ==
    LET data == BodyData(body)
        i == GetItemIndex(t, user, "ROADMAP", id)
        rows == data.items.rows
        items == [k \in DOMAIN rows |->
                     [title           |-> rows[k].title,
                      estimated_hours |-> HoursOf(rows[k].estimated_hours).v,
                      completed_hours |-> CompletedOf(rows[k]).v,
                      progress        |-> ItemProgress(CompletedOf(rows[k]).v,
                                                       HoursOf(rows[k].estimated_hours).v)]]
        with_items == IF "items" \in DOMAIN data
                      THEN [items           |-> items,
                            total_hours     |-> SumEstimated(rows),
                            completed_hours |-> SumCompleted(rows),
                            progress        |-> OverallProgress(SumCompleted(rows), SumEstimated(rows))]
                      ELSE <<>>
        updated == [t EXCEPT ![i] = Override(Override(t[i], Restrict(data, {"title"})), with_items)]
    IN  IF body.json = "invalid" THEN Response(400, t, 0, FALSE, <<>>)
        ELSE IF fail_at = 1 THEN Response(500, t, 1, TRUE, <<>>)
        ELSE IF i = 0 THEN Response(404, t, 1, FALSE, <<>>)
        ELSE IF body.json = "scalar" THEN Response(500, t, 1, FALSE, <<>>)
        ELSE IF "items" \in DOMAIN data /\ ~data.items.list THEN Response(400, t, 1, FALSE, <<>>)
        ELSE IF "items" \in DOMAIN data /\ ~ItemsAccepted(rows, TRUE)
        THEN Response(400, t, 1, FALSE, <<>>)
        ELSE IF fail_at = 2 THEN Response(500, t, 2, TRUE, <<>>)
        ELSE IF fail_at = 3 THEN Response(500, updated, 3, TRUE, <<>>)
        ELSE Response(200, updated, 3, FALSE, updated[i])

\* delete_roadmap: get_item, then update_item SET status = 'deleted'
DeleteRoadmap(t, user, id, fail_at) ==
    LET i == GetItemIndex(t, user, "ROADMAP", id)
    IN  IF fail_at = 1 THEN Response(500, t, 1, TRUE, <<>>)
        ELSE IF i = 0 THEN Response(404, t, 1, FALSE, <<>>)
        ELSE IF fail_at = 2 THEN Response(500, t, 2, TRUE, <<>>)
        ELSE Response(200, [t EXCEPT ![i].status = "deleted"], 2, FALSE, <<>>)

\* the rows of a CSV with at least two cells (lines 440-442)
CsvRows(csv_content) == SelectSeq(csv_content, LAMBDA row : "estimated_hours" \in DOMAIN row)

\* import_csv_roadmap: a row is title, estimated hours and, optionally,
\* completed hours; the roadmap starts with the completed hours of its rows
ImportCsvRoadmap(t, user, body, fail_at) ==
    LET data == BodyData(body)
        rows == CsvRows(data.csv_content)
        roadmap ==
            [kind |-> "ROADMAP", user |-> user, id |-> Len(ItemsOfKind(t, "ROADMAP")) + 1,
             title |-> IF "title" \in DOMAIN data THEN data.title ELSE "imported",
             items |-> [k \in DOMAIN rows |->
                           [title           |-> rows[k].title,
                            estimated_hours |-> HoursOf(rows[k].estimated_hours).v,
                            completed_hours |-> CompletedOf(rows[k]).v,
                            progress        |-> ItemProgress(CompletedOf(rows[k]).v,
                                                             HoursOf(rows[k].estimated_hours).v)]],
             total_hours     |-> SumEstimated(rows),
             completed_hours |-> SumCompleted(rows),
             progress        |-> OverallProgress(SumCompleted(rows), SumEstimated(rows)),
             status          |-> "active"]
    IN  IF body.json = "invalid" THEN Response(400, t, 0, FALSE, <<>>)
        ELSE IF body.json = "scalar" THEN Response(500, t, 0, FALSE, <<>>)
        ELSE IF "csv_content" \notin DOMAIN data THEN Response(400, t, 0, FALSE, <<>>)
        ELSE IF \E k \in DOMAIN rows :
                    \/ HoursOf(rows[k].estimated_hours).exc # ""
                    \/ CompletedOf(rows[k]).exc # ""
                    \/ rows[k].title = ""
                    \/ HoursOf(rows[k].estimated_hours).v <= 0
        THEN Response(400, t, 0, FALSE, <<>>)
        ELSE IF rows = <<>> THEN Response(400, t, 0, FALSE, <<>>)
        ELSE IF fail_at = 1 THEN Response(500, t, 1, TRUE, <<>>)
        ELSE Response(200, Append(t, roadmap), 1, FALSE, roadmap)

\* download_csv_template: a constant file, no table call
DownloadCsvTemplate(t) == Response(200, t, 0, FALSE, "roadmap_template.csv")

\* a variant of the roadmap handler that serves the template before the
\* check of the user id
RoadmapTemplateBeforeAuth(t, event, fail_at) ==
    LET user == GetUserId(event)
    IN  IF event.method = "GET" /\ event.path = "/template" THEN DownloadCsvTemplate(t)
        ELSE IF user = NoUser THEN Response(401, t, 0, FALSE, <<>>)
        ELSE IF event.method = "GET"
        THEN IF event.id # NoId THEN GetRoadmap(t, user, event.id, fail_at)
             ELSE ListRoadmaps(t, user, event.query, fail_at)
        ELSE IF event.method = "POST"
        THEN IF event.path = "/import" THEN ImportCsvRoadmap(t, user, event.body, fail_at)
             ELSE CreateRoadmap(t, user, event.body, fail_at)
        ELSE IF event.method = "PUT"
        THEN IF event.id = NoId THEN Response(400, t, 0, FALSE, <<>>)
             ELSE UpdateRoadmap(t, user, event.id, event.body, fail_at)
        ELSE IF event.method = "DELETE"
        THEN IF event.id = NoId THEN Response(400, t, 0, FALSE, <<>>)
             ELSE DeleteRoadmap(t, user, event.id, fail_at)
        ELSE Response(405, t, 0, FALSE, <<>>)

\* lambda_handler of the roadmap API: 401 without a user id, then the routing
RoadmapLambdaHandler(t, event, fail_at) ==
    LET user == GetUserId(event)
    IN  IF user = NoUser THEN Response(401, t, 0, FALSE, <<>>)
        ELSE IF event.method = "GET"
        THEN IF event.path = "/template" THEN DownloadCsvTemplate(t)
             ELSE IF event.id # NoId THEN GetRoadmap(t, user, event.id, fail_at)
             ELSE ListRoadmaps(t, user, event.query, fail_at)
        ELSE IF event.method = "POST"
        THEN IF event.path = "/import" THEN ImportCsvRoadmap(t, user, event.body, fail_at)
             ELSE CreateRoadmap(t, user, event.body, fail_at)
        ELSE IF event.method = "PUT"
        THEN IF event.id = NoId THEN Response(400, t, 0, FALSE, <<>>)
             ELSE UpdateRoadmap(t, user, event.id, event.body, fail_at)
        ELSE IF event.method = "DELETE"
        THEN IF event.id = NoId THEN Response(400, t, 0, FALSE, <<>>)
             ELSE DeleteRoadmap(t, user, event.id, fail_at)
        ELSE Response(405, t, 0, FALSE, <<>>)

\* the requests of the records API that finish within one step: every
\* request but a POST whose body create_record accepts
RecordsRoute(t, user, event, fail_at) ==
    IF event.method = "GET"
    THEN IF event.path = "/templates" THEN GetRecordTemplates(t, user, fail_at)
         ELSE IF event.id # NoId THEN GetRecord(t, user, event.id, fail_at)
         ELSE ListRecords(t, user, event.query, fail_at)
    ELSE IF event.method = "PUT"
    THEN IF event.id = NoId THEN Response(400, t, 0, FALSE, <<>>)
         ELSE UpdateRecord(t, user, event.id, event.body, fail_at)
    ELSE IF event.method = "DELETE"
    THEN IF event.id = NoId THEN Response(400, t, 0, FALSE, <<>>)
         ELSE DeleteRecord(t, user, event.id, fail_at)
    ELSE Response(405, t, 0, FALSE, <<>>)

\* the body create_record receives for a POST: the body of the request, or
\* the one create_record_from_template builds; status 200 when it is handed on
PostedRecord(event) ==
    IF event.path = "/from-template" THEN RecordFromTemplate(event.body)
    ELSE [status |-> 200, body |-> event.body]

-----------------------------------------------------------------------------
(* State machine *)

\* the HTTP status of the endpoint: 200, 400 for a rejected request, 500 for
\* an exception that leaves the service
StatusOf(outcome) == IF outcome = "ok" THEN 200 ELSE IF outcome = "invalid" THEN 400 ELSE 500

NoResult == [op |-> "none", outcome |-> "ok", exc |-> "", dbFailed |-> FALSE]

\* an operation's outcome: "ok" with a value, "raise" with the exception that
\* leaves the service, or "invalid" for a request the endpoint rejects;
\* dbFailed records that a table query of the operation raised ClientError
Outcome(op, arg, outcome, exc, dbFailed, val) ==
    [op |-> op, arg |-> arg, outcome |-> outcome, exc |-> exc, status |-> StatusOf(outcome),
     dbFailed |-> dbFailed, val |-> val]

TypeOK ==
    /\ Len(store) <= Max(Max(Max(Max(Max(MaxItems, MaxSessions), MaxSubjects), MaxStudyDays),
                           MaxScenarioItems), StreakWindow + 1)
    /\ now >= 0
    /\ enableCache \in BOOLEAN

\* A completed timer session or a record is written to its table by the
\* timer / records API
PutItem(candidates, limit) ==
    /\ Len(store) < limit
    /\ \E item \in candidates : store' = Append(store, item)
    /\ result' = [NoResult EXCEPT !.op = "put_item"]
    /\ UNCHANGED <<today, now, enableCache, cache, table, requests>>

\* the response a client receives ends its request
Respond(client, event, response) ==
    /\ table' = response.table
    /\ requests' = [requests EXCEPT ![client] = [pc |-> "idle"]]
    /\ result' = ApiResult("lambda_handler", event, response.status, response.dbFailed,
                           response.calls, response.val)
    /\ UNCHANGED <<store, today, now, enableCache, cache>>

\* lambda_handler of the records API, up to its response or, for a record
\* linked to a roadmap item, up to put_item: update_roadmap_progress then
\* reads and writes the roadmap in two further table calls
RecordsRequest(events, fails) ==
    \E client \in DOMAIN requests, event \in events, fail_at \in fails :
        LET user == GetUserId(event)
            posted == PostedRecord(event)
            check == CreateRecordCheck(posted.body)
            data == BodyData(posted.body)
            record == NewRecord(table, user, data, check.duration_minutes)
        IN  /\ requests[client].pc = "idle"
            /\ event.api = "records"
            /\ IF user = NoUser THEN Respond(client, event, Response(401, table, 0, FALSE, <<>>))
               ELSE IF event.method # "POST"
               THEN Respond(client, event, RecordsRoute(table, user, event, fail_at))
               ELSE IF posted.status # 200
               THEN Respond(client, event, Response(posted.status, table, 0, FALSE, <<>>))
               ELSE IF check.status # 200
               THEN Respond(client, event, Response(check.status, table, 0, FALSE, <<>>))
               ELSE IF fail_at = 1
               THEN Respond(client, event, Response(500, table, 1, TRUE, <<>>))
               ELSE /\ Len(ItemsOfKind(table, "RECORD")) < MaxRecords
                    /\ IF HasRoadmapItem(data)
                       THEN /\ table' = Append(table, record)
                            /\ requests' = [requests EXCEPT ![client] =
                                               [pc |-> "get_roadmap", event |-> event,
                                                record |-> record]]
                            /\ result' = [NoResult EXCEPT !.op = "put_item"]
                            /\ UNCHANGED <<store, today, now, enableCache, cache>>
                       ELSE Respond(client, event,
                                    Response(200, Append(table, record), 1, FALSE, record))

\* update_roadmap_progress, lines 560-591: get_item of the roadmap and the
\* new items computed from it; without the roadmap or the item, or when the
\* call raises, the record is returned as created
GetRoadmapStep(fails) ==
    \E client \in DOMAIN requests, fail \in fails :
        LET request == requests[client]
            i == GetItemIndex(table, request.record.user, "ROADMAP", request.record.roadmap_id)
        IN  /\ request.pc = "get_roadmap"
            /\ IF fail \/ i = 0
                  \/ ~ProgressUpdate(table[i], request.record.roadmap_item_title,
                                     request.record.duration_minutes).updated
               THEN Respond(client, request.event,
                            Response(200, table, 2, fail, request.record))
               ELSE /\ requests' = [requests EXCEPT ![client] =
                                       [request EXCEPT !.pc = "update_roadmap"] @@
                                       [update |-> ProgressUpdate(table[i],
                                                       request.record.roadmap_item_title,
                                                       request.record.duration_minutes)]]
                    /\ result' = [NoResult EXCEPT !.op = "get_item"]
                    /\ UNCHANGED <<store, today, now, enableCache, cache, table>>

\* update_roadmap_progress, lines 598-616: update_item writes the items and
\* the totals computed from the roadmap that was read
UpdateRoadmapStep(fails) ==
    \E client \in DOMAIN requests, fail \in fails :
        LET request == requests[client]
            i == GetItemIndex(table, request.record.user, "ROADMAP", request.record.roadmap_id)
        IN  /\ request.pc = "update_roadmap"
            /\ IF fail
               THEN Respond(client, request.event, Response(200, table, 3, TRUE, request.record))
               ELSE Respond(client, request.event,
                            Response(200,
                                     [table EXCEPT ![i] =
                                         Override(@, Restrict(request.update,
                                                     {"items", "completed_hours", "progress"}))],
                                     3, FALSE, request.record))

\* lambda_handler of the roadmap API
RoadmapRequest(events, fails) ==
    \E client \in DOMAIN requests, event \in events, fail_at \in fails :
        /\ requests[client].pc = "idle"
        /\ event.api = "roadmap"
        /\ Len(ItemsOfKind(RoadmapLambdaHandler(table, event, fail_at).table, "ROADMAP"))
               <= MaxRoadmaps
        /\ Respond(client, event, RoadmapLambdaHandler(table, event, fail_at))

\* GET /summary (lambda): db_service.get_study_streak_data
GetStudyStreakData ==
    \E fail \in BOOLEAN :
        /\ result' = Outcome("get_study_streak_data", today, "ok", "", fail,
                             GetStudyStreakDataValue(store, today, fail))
        /\ UNCHANGED <<store, today, now, enableCache, cache, table, requests>>

\* GET /streaks (backend): analytics_service.get_study_streaks
GetStudyStreaks ==
    \E fail \in BOOLEAN :
        LET r == GetStudyStreaksValue(store, today, fail)
        IN  /\ result' = Outcome("get_study_streaks", today, r.outcome, r.exc, fail, r.val)
            /\ UNCHANGED <<store, today, now, enableCache, cache, table, requests>>

\* GET /weekly: generate_weekly_analytics, with the cache when it is enabled
GenerateWeeklyAnalytics(week_starts) ==
    \E ws \in week_starts, fail \in BOOLEAN :
        LET week_start == WeekStartOrDefault(ws, today)
            got == IF enableCache THEN CacheGet(cache, week_start, now)
                   ELSE [hit |-> FALSE, data |-> <<>>, cache |-> cache]
            computed == ComputeWeeklyAnalytics(store, week_start, fail)
        IN  /\ \A i \in DOMAIN got.cache : got.cache[i].hit_count <= MaxHits
            /\ result' = IF got.hit
                         THEN Outcome("generate_weekly_analytics", ws, "ok", "", FALSE, got.data)
                         ELSE Outcome("generate_weekly_analytics", ws, "ok", "", fail, computed)
            /\ cache' = IF got.hit \/ ~enableCache THEN got.cache
                        ELSE CacheSet(got.cache, week_start, computed, WeeklyCacheTtl, now)
            /\ UNCHANGED <<store, today, now, enableCache, table, requests>>

\* GET /productivity: period_days is validated to 7..365 by the endpoint
GetProductivityMetrics(periods) ==
    \E period_days \in periods, fail \in BOOLEAN :
        LET r == GenerateProductivityMetrics(store, today, period_days, fail)
        IN  /\ result' = Outcome("generate_productivity_metrics", period_days,
                                 r.outcome, r.exc, fail, r.val)
            /\ UNCHANGED <<store, today, now, enableCache, cache, table, requests>>

\* POST /analyze with analysis_type "productivity": period_days is
\* (end_date - start_date).days + 1 when both dates are given, else 30
AnalyzeCustomProductivity(ranges) ==
    \E range \in ranges, fail \in BOOLEAN :
        LET period_days == IF range[1] # NoDate /\ range[2] # NoDate
                           THEN (range[2] - range[1]) + 1 ELSE 30
            r == GenerateProductivityMetrics(store, today, period_days, fail)
        IN  /\ result' = Outcome("analyze_custom_productivity", range,
                                 r.outcome, r.exc, fail, r.val)
            /\ UNCHANGED <<store, today, now, enableCache, cache, table, requests>>

\* GET /goals: track_goals on the user's goals; goals <<>> is an empty
\* study_goals dict; a failing users table gives the defaults
GetGoalTracking(goal_profiles) ==
    \E goals \in goal_profiles, fail \in BOOLEAN :
        LET r == TrackGoals(store, today, IF fail THEN DefaultGoals ELSE goals, fail)
        IN  /\ result' = Outcome("track_goals", goals, r.outcome, r.exc, fail, r.val)
            /\ UNCHANGED <<store, today, now, enableCache, cache, table, requests>>

\* GET /summary (backend): start_date defaults to 30 days ago, end_date to today
GetAnalyticsSummary(ranges) ==
    \E range \in ranges, fail \in BOOLEAN :
        LET start_date == IF range[1] = NoDate THEN today - 30 ELSE range[1]
            end_date == IF range[2] = NoDate THEN today ELSE range[2]
            r == GetAnalyticsSummaryValue(store, today, start_date, end_date, fail)
        IN  /\ result' = [Outcome("get_analytics_summary", <<start_date, end_date>>,
                                  r.outcome, r.exc, fail, r.val)
                             EXCEPT !.status = SummaryEndpointStatus(r.exc)]
            /\ UNCHANGED <<store, today, now, enableCache, cache, table, requests>>

\* GET /weekly (backend): week_start defaults to the Monday of this week
GetWeeklyReport(week_starts) ==
    \E week_start \in week_starts, fail \in BOOLEAN :
        LET start == WeekStartOrDefault(week_start, today)
            r == GenerateWeeklyReportValue(store, today, start, fail)
        IN  /\ result' = [Outcome("generate_weekly_report", start, r.outcome, r.exc, fail, r.val)
                             EXCEPT !.status = SummaryEndpointStatus(r.exc)]
            /\ UNCHANGED <<store, today, now, enableCache, cache, table, requests>>

\* GET /comparison (backend): the HTTPException(400) for an unknown period
\* is raised inside the try block of the endpoint
GetComparisonData(periods) ==
    \E period \in periods, fail \in BOOLEAN :
        LET r == IF period \notin {"week", "month"}
                 THEN [outcome |-> "raise", exc |-> "HTTPException", val |-> <<>>]
                 ELSE GetComparisonDataValue(store, today, period, fail)
            queried == fail /\ period \in {"week", "month"}
        IN  /\ result' = [Outcome("get_comparison_data", period, r.outcome, r.exc, queried, r.val)
                             EXCEPT !.status = SummaryEndpointStatus(r.exc)]
            /\ UNCHANGED <<store, today, now, enableCache, cache, table, requests>>

\* GET /export (backend): the HTTPException(400) for an unknown format is
\* raised inside the try block; the range defaults to the last 90 days
ExportAnalyticsData(formats) ==
    \E format \in formats, fail \in BOOLEAN :
        LET r == IF format \notin {"json", "csv"}
                 THEN [outcome |-> "raise", exc |-> "HTTPException", val |-> <<>>]
                 ELSE ExportAnalyticsDataValue(store, today - 90, today, format, now, fail)
            queried == fail /\ format \in {"json", "csv"}
        IN  /\ result' = [Outcome("export_analytics_data", format, r.outcome, r.exc, queried, r.val)
                             EXCEPT !.status = ExportEndpointStatus(r.exc)]
            /\ UNCHANGED <<store, today, now, enableCache, cache, table, requests>>

\* GET /charts/{chart_type} (lambda): period_days is validated to 1..365; the
\* HTTPException(400) for an unknown chart type is re-raised as it is
GetChartData(chart_types, periods) ==
    \E chart_type \in chart_types, period_days \in periods, fail \in BOOLEAN :
        LET known == chart_type \in ValidChartTypes
            r == IF known THEN GenerateChartData(store, today, chart_type, period_days, fail)
                 ELSE [outcome |-> "invalid", exc |-> "HTTPException", val |-> <<>>]
        IN  /\ result' = Outcome("generate_chart_data", <<chart_type, period_days>>,
                                 r.outcome, r.exc, fail /\ known, r.val)
            /\ UNCHANGED <<store, today, now, enableCache, cache, table, requests>>

\* GET /charts/hourly (backend): days is validated to 1..365
GetHourlyDistribution(periods) ==
    \E days \in periods, fail \in BOOLEAN :
        /\ result' = Outcome("get_hourly_distribution", days, "ok", "", fail,
                         CalculateHourlyDistribution(
                             GetStudyDataForPeriod(store, today - (days - 1), today, fail)))
        /\ UNCHANGED <<store, today, now, enableCache, cache, table, requests>>

\* GET /productivity (backend): days is validated to 7..365
GetProductivityInsights(periods) ==
    \E days \in periods, fail \in BOOLEAN :
        /\ result' = Outcome("get_productivity_insights", days, "ok", "", fail,
                         CalculateProductivityInsights(
                             GetStudyDataForPeriod(store, today - (days - 1), today, fail)))
        /\ UNCHANGED <<store, today, now, enableCache, cache, table, requests>>

\* CacheService.set(key, data, ttl): ttl 0 or None takes the default
CacheServiceSet(keys, ttls) ==
    \E key \in keys, ttl \in ttls :
        LET ttl_seconds == IF ttl = 0 THEN CacheTtlSeconds ELSE ttl
        IN  /\ cache' = CacheSet(cache, key, key, ttl_seconds, now)
            /\ result' = Outcome("set", [key |-> key, ttl |-> ttl], "ok", "", FALSE,
                                 [returned |-> TRUE,
                                  overflow |-> ~CacheHas(cache, key) /\ Len(cache) >= CacheLimit])
            /\ UNCHANGED <<store, today, now, enableCache, table, requests>>

\* CacheService.get(key); held records that the key was in _cache at the call
CacheServiceGet(keys) ==
    \E key \in keys :
        LET got == CacheGet(cache, key, now)
        IN  /\ \A i \in DOMAIN got.cache : got.cache[i].hit_count <= MaxHits
            /\ cache' = got.cache
            /\ result' = Outcome("get", [key |-> key], "ok", "", FALSE,
                                 [hit |-> got.hit, data |-> got.data,
                                  held |-> CacheHas(cache, key)])
            /\ UNCHANGED <<store, today, now, enableCache, table, requests>>

\* CacheService.exists(key)
CacheServiceExists(keys) ==
    \E key \in keys :
        /\ cache' = CacheExists(cache, key, now).cache
        /\ result' = Outcome("exists", [key |-> key], "ok", "", FALSE,
                             [exists |-> CacheExists(cache, key, now).exists,
                              held |-> CacheHas(cache, key)])
        /\ UNCHANGED <<store, today, now, enableCache, table, requests>>

\* CacheService.delete(key)
CacheServiceDelete(keys) ==
    \E key \in keys :
        /\ cache' = CacheDel(cache, key)
        /\ result' = Outcome("delete", [key |-> key], "ok", "", FALSE, TRUE)
        /\ UNCHANGED <<store, today, now, enableCache, table, requests>>

\* CacheService.clear()
CacheServiceClear ==
    /\ cache' = <<>>
    /\ result' = Outcome("clear", <<>>, "ok", "", FALSE, TRUE)
    /\ UNCHANGED <<store, today, now, enableCache, table, requests>>

\* CacheService.cleanup_expired()
CacheServiceCleanupExpired ==
    /\ cache' = CleanupExpired(cache, now).cache
    /\ result' = Outcome("cleanup_expired", <<>>, "ok", "", FALSE, CleanupExpired(cache, now).count)
    /\ UNCHANGED <<store, today, now, enableCache, table, requests>>

\* time passes
Tick(step) ==
    /\ now < MaxTicks * step
    /\ now' = now + step
    /\ UNCHANGED <<store, today, enableCache, cache, result, table, requests>>

\* GET /monthly-trends: months is validated to 1..12 by the endpoint
GenerateMonthlyTrends ==
    \E months_back \in 1..12, fail \in BOOLEAN :
        /\ result' = Outcome("generate_monthly_trends", months_back, "ok", "", fail,
                             GenerateMonthlyTrendsValue(store, today, months_back, fail))
        /\ UNCHANGED <<store, today, now, enableCache, cache, table, requests>>

-----------------------------------------------------------------------------
(* Main specification: the default configuration (cache disabled), today a  *)
(* Wednesday, and a few timer and record items around it                    *)

MainToday == DateOf(2024, 3, 6)

MainItems ==
    { TimerItem(MainToday, 8, 30, "math"),
      TimerItem(MainToday - 1, 21, 30, "english"),
      RecordItem(MainToday - 7, 10, 60, "math"),
      \* a record whose sort key carries another date than its 'date' attribute
      Item("record", MainToday, MainToday - 7, "iso", 10, "iso", 60, "english"),
      \* a timer item whose 'date' is not a date
      Item("timer", MainToday - 1, MainToday - 1, "malformed", 9, "iso", 30, "math"),
      \* a timer item without start_time
      Item("timer", MainToday, MainToday, "iso", 0, "absent", 30, "math") }

MainWeekStarts == {NoDate, MainToday - 9}

MainRanges == {<<NoDate, NoDate>>, <<MainToday - 6, MainToday>>, <<MainToday, MainToday - 1>>}

MainGoalProfiles ==
    { DefaultGoals,
      <<>>,
      [daily_target_minutes |-> 0, weekly_target_minutes |-> 420],
      [weekly_target_minutes |-> 30] }

SummaryRanges ==
    {<<NoDate, NoDate>>, <<MainToday - 7, MainToday>>, <<MainToday, MainToday - 7>>}

Init ==
    /\ store = <<>>
    /\ today = MainToday
    /\ now = 0
    /\ enableCache = FALSE
    /\ cache = <<>>
    /\ result = NoResult
    /\ table = <<>>
    /\ requests = IdleClients

PutMainItem == PutItem(MainItems, MaxItems)

WeeklyAnalytics == GenerateWeeklyAnalytics(MainWeekStarts)

ProductivityMetrics == GetProductivityMetrics({7, 30})

AnalyzeCustom == AnalyzeCustomProductivity(MainRanges)

GoalTracking == GetGoalTracking(MainGoalProfiles)

Summary == GetAnalyticsSummary(SummaryRanges)

Comparison == GetComparisonData({"week", "month", "year"})

Export == ExportAnalyticsData({"json", "csv", "xml"})


Next ==
    \/ PutMainItem
    \/ WeeklyAnalytics
    \/ ProductivityMetrics
    \/ AnalyzeCustom
    \/ GoalTracking
    \/ Summary
    \/ Comparison
    \/ Export
    \/ GetStudyStreakData
    \/ GetStudyStreaks

Spec == Init /\ [][Next]_vars

-----------------------------------------------------------------------------
(* Chart specification: the chart endpoints over the same items             *)

MainChartTypes == ValidChartTypes \cup {"heatmap"}

PutChartItem == PutItem(MainItems, MaxItems)

ChartData == GetChartData(MainChartTypes, {1, 7})

HourlyDistribution == GetHourlyDistribution({1, 7})

NextCharts == PutChartItem \/ ChartData \/ HourlyDistribution

SpecCharts == Init /\ [][NextCharts]_vars

-----------------------------------------------------------------------------
(* Weekly specification: the weekly analytics and the comparisons over      *)
(* sessions of this week and of the week before                             *)

WeeklyItems ==
    { TimerItem(MainToday, 8, 30, "math"),
      TimerItem(MainToday, 9, 45, "english"),
      TimerItem(MainToday - 1, 21, 30, "english"),
      RecordItem(MainToday - 2, 10, 60, "science"),
      RecordItem(MainToday - 7, 10, 60, "math"),
      TimerItem(MainToday - 8, 7, 20, "english") }

PutWeeklyItem == PutItem(WeeklyItems, MaxItems)

WeeklyOfWeek == GenerateWeeklyAnalytics({NoDate, MainToday - 9})

WeekOrMonthComparison == GetComparisonData({"week", "month"})

NextWeekly == PutWeeklyItem \/ WeeklyOfWeek \/ WeekOrMonthComparison

SpecWeekly == Init /\ [][NextWeekly]_vars

-----------------------------------------------------------------------------
(* Productivity specification: the productivity metrics over up to          *)
(* MaxSessions sessions of today and yesterday                              *)

ProductivityItems ==
    { TimerItem(MainToday, 8, 30, "math"),
      TimerItem(MainToday, 21, 90, "english"),
      TimerItem(MainToday - 1, 22, 20, "math"),
      TimerItem(MainToday - 1, 8, 45, "math"),
      RecordItem(MainToday, 10, 60, "science") }

ProductivityRanges ==
    {<<NoDate, NoDate>>, <<MainToday, MainToday>>, <<MainToday - 1, MainToday>>}

PutProductivityItem == PutItem(ProductivityItems, MaxSessions)

WeekProductivity == GetProductivityMetrics({7})

RangeProductivity == AnalyzeCustomProductivity(ProductivityRanges)

WeekInsights == GetProductivityInsights({7})

NextProductivity ==
    PutProductivityItem \/ WeekProductivity \/ RangeProductivity \/ WeekInsights

SpecProductivity == Init /\ [][NextProductivity]_vars

-----------------------------------------------------------------------------
(* Subject specification: the weekly analytics over up to MaxSubjects       *)
(* sessions of today; the k-th item stored is a session of the k-th subject *)
(* of 30 or 60 minutes, or one more session of the first subject            *)

SubjectNames ==
    <<"math", "english", "science", "history", "art", "music", "physics", "biology">>

SubjectHours == <<12, 8, 10, 9, 11, 7, 6, 5>>

SubjectItemsAt(k) ==
    IF k \in DOMAIN SubjectNames
    THEN {TimerItem(MainToday, SubjectHours[k], dur, SubjectNames[k]) : dur \in {30, 60}}
             \cup {TimerItem(MainToday, 12 + k, 30, SubjectNames[1])}
    ELSE {}

PutSubjectItem == PutItem(SubjectItemsAt(Len(store) + 1), MaxSubjects)

WeeklyOfToday == GenerateWeeklyAnalytics({NoDate})

NextSubjects == PutSubjectItem \/ WeeklyOfToday

SpecSubjects == Init /\ [][NextSubjects]_vars

-----------------------------------------------------------------------------
(* Consistency specification: the weekly analytics of last week, whose days *)
(* get at most one session each, of 10 or 60 minutes, stored in date order  *)

LastMonday == MainToday - Weekday(MainToday) - 7

ConsistencyItemsAfter(last) ==
    {TimerItem(day, 9, dur, "math") :
        day \in (last + 1)..(LastMonday + MaxStudyDays - 1), dur \in {10, 60}}

PutConsistencyItem ==
    PutItem(ConsistencyItemsAfter(IF store = <<>> THEN LastMonday - 1
                                  ELSE store[Len(store)].date),
            MaxStudyDays)

WeeklyOfLastWeek == GenerateWeeklyAnalytics({LastMonday})

NextConsistency == PutConsistencyItem \/ WeeklyOfLastWeek

SpecConsistency == Init /\ [][NextConsistency]_vars

-----------------------------------------------------------------------------
(* Scenario specification: last week with sessions on its Monday, Wednesday, *)
(* Friday and Saturday, each stored at most once, in any order; the Friday   *)
(* holds one session of 90 minutes or sessions of 50 and 40 minutes          *)

ScenarioItems ==
    { TimerItem(LastMonday, 9, 60, "math"),
      RecordItem(LastMonday + 2, 10, 30, "english"),
      TimerItem(LastMonday + 4, 20, 90, "math"),
      TimerItem(LastMonday + 4, 8, 50, "science"),
      RecordItem(LastMonday + 4, 11, 40, "math"),
      TimerItem(LastMonday + 5, 14, 45, "english") }

PutScenarioItem ==
    PutItem(ScenarioItems \ {store[i] : i \in DOMAIN store}, MaxScenarioItems)

WeeklyReportOfLastWeek == GetWeeklyReport({LastMonday})

NextScenario == PutScenarioItem \/ WeeklyOfLastWeek \/ WeeklyReportOfLastWeek

SpecScenario == Init /\ [][NextScenario]_vars

-----------------------------------------------------------------------------
(* Cache specification: ENABLE_CACHE=true                                   *)

CacheItems == {TimerItem(MainToday, 8, 30, "math"), RecordItem(MainToday - 7, 10, 60, "math")}

\* The records and roadmap APIs: the requests of an authenticated user and
\* of a caller without a user id, with table calls that may fail
Event(api, method, path, id, user, body) ==
    [api |-> api, method |-> method, path |-> path, id |-> id, user |-> user,
     query |-> <<>>, body |-> body]

NoBody == [json |-> "none", data |-> <<>>]

Object(data) == [json |-> "object", data |-> data]

IntValue(v) == [t |-> "int", v |-> v]

RecordBodies ==
    {NoBody, [json |-> "invalid", data |-> <<>>], [json |-> "scalar", data |-> <<>>],
     Object([title |-> "t", duration_minutes |-> IntValue(30)]),
     Object([title |-> "t"]),
     Object([duration_minutes |-> IntValue(30)]),
     Object([title |-> "t", duration_minutes |-> [t |-> "text", v |-> 0]]),
     Object([title |-> "t", duration_minutes |-> [t |-> "null", v |-> 0]]),
     Object([title |-> "t", duration_minutes |-> IntValue(0)]),
     Object([title |-> "t", duration_minutes |-> [t |-> "float", v |-> 5]]),
     Object([title |-> "t", duration_minutes |-> [t |-> "inf", v |-> 0 - 1]]),
     Object([title |-> "t", duration_minutes |-> [t |-> "str", v |-> 45],
             roadmap_id |-> 1, roadmap_item_title |-> "a"])}

TemplateBodies ==
    {[json |-> "invalid", data |-> <<>>],
     Object([title |-> "t"]),
     Object([template_type |-> "other"]),
     Object([template_type |-> "reading"]),
     Object([template_type |-> "reading", duration_minutes |-> IntValue(0)]),
     Object([template_type |-> "video", duration_minutes |-> [t |-> "text", v |-> 0]]),
     Object([template_type |-> "coding", duration_minutes |-> [t |-> "inf", v |-> 0 - 1]]),
     Object([template_type |-> "roadmap"]),
     Object([template_type |-> "roadmap", roadmap_id |-> 1, roadmap_item_title |-> "a",
             duration_minutes |-> IntValue(0 - 15)])}

UpdateBodies ==
    {[json |-> "invalid", data |-> <<>>],
     Object([title |-> "t2"]),
     Object([duration_minutes |-> IntValue(0)])}

RoadmapRows == <<[title |-> "a", estimated_hours |-> IntValue(1)],
                 [title |-> "b", estimated_hours |-> [t |-> "float", v |-> 5],
                  completed_hours |-> [t |-> "float", v |-> 5]]>>

RoadmapBodies ==
    {[json |-> "invalid", data |-> <<>>],
     Object([title |-> "r"]),
     Object([title |-> "r", items |-> [list |-> TRUE, rows |-> RoadmapRows]]),
     Object([title |-> "r", items |-> [list |-> TRUE, rows |-> <<[title |-> "a"]>>]])}

ApiFails == 0..3

UserIds == {NoUser, "u1"}

LinkedRecord == Object([title |-> "t", duration_minutes |-> [t |-> "str", v |-> 45],
                        roadmap_id |-> 1, roadmap_item_title |-> "a"])

NewRoadmapBody == Object([title |-> "r", items |-> [list |-> TRUE, rows |-> RoadmapRows]])

\* every route of the two APIs without a user id, next to the requests of a
\* user that fill and change the table
AuthRecordsEvents ==
    {Event("records", "POST", "", NoId, NoUser, LinkedRecord),
     Event("records", "POST", "/from-template", NoId, NoUser, Object([template_type |-> "reading"])),
     Event("records", "GET", "/templates", NoId, NoUser, NoBody)}
    \cup {Event("records", method, "", id, NoUser, body) :
              method \in {"GET", "PUT", "DELETE", "PATCH"}, id \in {NoId, 1},
              body \in {NoBody, [json |-> "invalid", data |-> <<>>]}}
    \cup {Event("records", "POST", "/from-template", NoId, "u1", Object([template_type |-> "reading"])),
          Event("records", "DELETE", "", 1, "u1", NoBody)}

AuthRoadmapEvents ==
    {Event("roadmap", "POST", "", NoId, NoUser, NewRoadmapBody),
     Event("roadmap", "GET", "/template", NoId, NoUser, NoBody),
     Event("roadmap", "POST", "/import", NoId, NoUser,
           Object([csv_content |-> <<[title |-> "a", estimated_hours |-> IntValue(2)]>>]))}
    \cup {Event("roadmap", method, "", id, NoUser, body) :
              method \in {"GET", "PUT", "DELETE", "PATCH"}, id \in {NoId, 1},
              body \in {NoBody, [json |-> "invalid", data |-> <<>>]}}
    \cup {Event("roadmap", "POST", "", NoId, "u1", NewRoadmapBody),
          Event("roadmap", "GET", "/template", NoId, "u1", NoBody),
          Event("roadmap", "DELETE", "", 1, "u1", NoBody)}

AuthRecordsApi == RecordsRequest(AuthRecordsEvents, {0})

AuthRoadmapApi == RoadmapRequest(AuthRoadmapEvents, {0})

NextAuth == AuthRecordsApi \/ AuthRoadmapApi

SpecAuth == Init /\ [][NextAuth]_vars

\* create_record and create_record_from_template on every kind of body,
\* next to a roadmap whose progress a record may update
CreateEvents ==
    {Event("records", "POST", "", NoId, "u1", body) : body \in RecordBodies}
    \cup {Event("records", "POST", "/from-template", NoId, "u1", body) : body \in TemplateBodies}

CreateRoadmapEvents == {Event("roadmap", "POST", "", NoId, "u1", body) : body \in RoadmapBodies}

CreateRecordsApi == RecordsRequest(CreateEvents, {0, 1})

CreateRoadmapApi == RoadmapRequest(CreateRoadmapEvents, {0, 1})

CreateGetRoadmap == GetRoadmapStep(BOOLEAN)

CreateUpdateRoadmap == UpdateRoadmapStep(BOOLEAN)

NextCreate == CreateRecordsApi \/ CreateGetRoadmap \/ CreateUpdateRoadmap \/ CreateRoadmapApi

SpecCreate == Init /\ [][NextCreate]_vars

\* the life of a record: created, read, listed, updated and deleted, with
\* table calls that may fail
DeleteEvents ==
    {Event("records", "POST", "", NoId, "u1", Object([title |-> "t", duration_minutes |-> IntValue(30)]))}
    \cup {Event("records", "PUT", "", id, "u1", body) : id \in 1..MaxRecords, body \in UpdateBodies}
    \cup {Event("records", method, "", id, "u1", NoBody) :
              method \in {"GET", "DELETE"}, id \in 0..MaxRecords}

DeleteRecordsApi == RecordsRequest(DeleteEvents, ApiFails)

NextDelete == DeleteRecordsApi

SpecDelete == Init /\ [][NextDelete]_vars

\* records of 45 and 30 minutes on the same roadmap item, created by
\* concurrent invocations whose table calls all succeed
ProgressEvents ==
    {Event("records", "POST", "", NoId, "u1",
           Object([title |-> "t", duration_minutes |-> IntValue(minutes),
                   roadmap_id |-> 1, roadmap_item_title |-> "a"])) : minutes \in {30, 45}}

ProgressRoadmapEvents == {Event("roadmap", "POST", "", NoId, "u1", NewRoadmapBody)}

ProgressRecordsApi == RecordsRequest(ProgressEvents, {0})

ProgressRoadmapApi == RoadmapRequest(ProgressRoadmapEvents, {0})

ProgressGetRoadmap == GetRoadmapStep({FALSE})

ProgressUpdateRoadmap == UpdateRoadmapStep({FALSE})

NextProgress ==
    ProgressRecordsApi \/ ProgressGetRoadmap \/ ProgressUpdateRoadmap \/ ProgressRoadmapApi

SpecProgress == Init /\ [][NextProgress]_vars


InitCache ==
    /\ store = <<>>
    /\ today = MainToday
    /\ now = 0
    /\ enableCache = TRUE
    /\ cache = <<>>
    /\ result = NoResult
    /\ table = <<>>
    /\ requests = IdleClients

PutCacheItem == PutItem(CacheItems, MaxItems)

CachedWeeklyAnalytics == GenerateWeeklyAnalytics(MainWeekStarts)

HalfHour == Tick(1800)

NextCache == PutCacheItem \/ CachedWeeklyAnalytics \/ HalfHour

SpecCache == InitCache /\ [][NextCache]_vars

\* Goal tracking: sessions of 30 and 60 minutes today and earlier this week
\* against targets below, at and above the minutes studied, a target of 0
\* and a negative target
GoalItems ==
    { TimerItem(MainToday, 8, 30, "math"),
      RecordItem(MainToday, 10, 60, "math"),
      TimerItem(MainToday - 1, 21, 30, "english"),
      RecordItem(MainToday - 2, 10, 60, "english") }

GoalProfiles ==
    { DefaultGoals,
      [daily_target_minutes |-> 30, weekly_target_minutes |-> 90],
      [daily_target_minutes |-> 90, weekly_target_minutes |-> 60],
      [daily_target_minutes |-> 0 - 30],
      [weekly_target_minutes |-> 0] }

PutGoalItem == PutItem(GoalItems, MaxItems)

GoalsOfToday == GetGoalTracking(GoalProfiles)

NextGoals == PutGoalItem \/ GoalsOfToday

SpecGoals == Init /\ [][NextGoals]_vars

\* CacheService on its own: one key more than the limit, written with the
\* default TTL; the first key is also read, tested and deleted; the clock
\* moves in steps of the default TTL
ServiceKeys == 1..(CacheLimit + 1)

ServiceSet == CacheServiceSet(ServiceKeys, {0})

ServiceGet == CacheServiceGet({1})

ServiceExists == CacheServiceExists({1})

ServiceDelete == CacheServiceDelete({1})

ServiceClock == Tick(CacheTtlSeconds)

NextService ==
    \/ ServiceSet \/ ServiceGet \/ ServiceExists \/ ServiceDelete
    \/ CacheServiceClear \/ CacheServiceCleanupExpired \/ ServiceClock

SpecService == InitCache /\ [][NextService]_vars

\* two keys with the default TTL or twice the default, read and tested
\* before and after they expire
ExpiryKeys == {1, 2}

ExpirySet == CacheServiceSet(ExpiryKeys, {0, 2 * CacheTtlSeconds})

ExpiryGet == CacheServiceGet(ExpiryKeys)

ExpiryExists == CacheServiceExists(ExpiryKeys)

ExpiryDelete == CacheServiceDelete(ExpiryKeys)

NextExpiry ==
    \/ ExpirySet \/ ExpiryGet \/ ExpiryExists \/ ExpiryDelete
    \/ CacheServiceClear \/ CacheServiceCleanupExpired \/ ServiceClock

SpecExpiry == InitCache /\ [][NextExpiry]_vars

-----------------------------------------------------------------------------
(* Streak specification: timer sessions on the days around the lookback     *)
(* window, one per stored item                                              *)

StreakToday == DateOf(2024, 3, 6)

StreakItems == {TimerItem(StreakToday - k, 9, 30, "math") : k \in 0..(StreakWindow + 1)}

InitStreak ==
    /\ store = <<>>
    /\ today = StreakToday
    /\ now = 0
    /\ enableCache = FALSE
    /\ cache = <<>>
    /\ result = NoResult
    /\ table = <<>>
    /\ requests = IdleClients

PutStreakItem == PutItem(StreakItems, StreakWindow + 1)

NextStreak == PutStreakItem \/ GetStudyStreakData \/ GetStudyStreaks

SpecStreak == InitStreak /\ [][NextStreak]_vars

-----------------------------------------------------------------------------
(* Monthly-trend specification: the first and the last day of every month  *)
(* from 2024-01 to 2025-01 as the current date, with sessions in the        *)
(* current month and some 45 days back                                      *)

MonthlyTodays ==
    {DateOf(ym[1], ym[2], 1) : ym \in ({2024} \X (1..12)) \cup {<<2025, 1>>}}
    \cup {DateOf(ym[1], ym[2], DaysInMonth(ym[1], ym[2])) : ym \in ({2024} \X (1..12)) \cup {<<2025, 1>>}}

MonthlyItems == {TimerItem(today, 9, 30, "math"), RecordItem(today - 45, 10, 60, "math")}

InitMonthly ==
    /\ store = <<>>
    /\ today \in MonthlyTodays
    /\ now = 0
    /\ enableCache = FALSE
    /\ cache = <<>>
    /\ result = NoResult
    /\ table = <<>>
    /\ requests = IdleClients

PutMonthlyItem == PutItem(MonthlyItems, MaxItems)

NextMonthly == PutMonthlyItem \/ GenerateMonthlyTrends

SpecMonthly == InitMonthly /\ [][NextMonthly]_vars

-----------------------------------------------------------------------------
(* Properties *)

\* the dates (ordinals) of the stored items whose 'date' parses
StoredDates == {store[i].date : i \in {j \in DOMAIN store : store[j].dateForm = "iso"}}

\* the number of consecutive days d, d-1, ... that are all in S
ConsecutiveBack(S, d) ==
    CHOOSE k \in 0..Cardinality(S) : (\A j \in 0..(k - 1) : (d - j) \in S) /\ (d - k) \notin S

\* the length of the longest run of consecutive days in S
LongestRunIn(S) ==
    CHOOSE k \in 0..Cardinality(S) :
        /\ k > 0 => \E d \in S : \A j \in 0..(k - 1) : (d + j) \in S
        /\ ~ \E d \in S : \A j \in 0..k : (d + j) \in S

StreakResult ==
    /\ result.op \in {"get_study_streak_data", "get_study_streaks"}
    /\ result.outcome = "ok"

\* C2: the reported current_streak never exceeds the reported longest_streak,
\* in get_study_streak_data and in _calculate_streaks (get_study_streaks).
C2_CurrentStreakAtMostLongest ==
    StreakResult => result.val.current_streak <= result.val.longest_streak

\* C6: current_streak is the number of consecutive days, counted backward
\* from today, that each have a session; it is 0 when today has no session.
C6_CurrentStreakCountsBackFromToday ==
    (StreakResult /\ ~result.dbFailed) =>
        /\ today \notin StoredDates => result.val.current_streak = 0
        /\ result.op = "get_study_streaks" =>
              result.val.current_streak = ConsecutiveBack(StoredDates, today)
        /\ result.op = "get_study_streak_data" =>
              result.val.current_streak
                  = ConsecutiveBack(StoredDates \cap ((today - StreakWindow)..today), today)

\* C7: longest_streak is the length of the longest run of consecutive days
\* among the study dates the same result reports, 0 when there are none.
C7_LongestStreakIsLongestRun ==
    /\ (result.op = "get_study_streak_data" /\ result.outcome = "ok") =>
          /\ result.val.longest_streak = LongestRunIn(Range(result.val.study_dates))
          /\ result.val.total_study_days = Len(result.val.study_dates)
    /\ (result.op = "get_study_streaks" /\ result.outcome = "ok" /\ ~result.dbFailed) =>
          /\ result.val.longest_streak = LongestRunIn(StoredDates)
          /\ result.val.total_study_days = Cardinality(StoredDates)

\* the month k months before the month of day d, as <<year, month>>
MonthsBefore(d, k) ==
    LET idx == YearOf(d) * 12 + (MonthOf(d) - 1) - k
    IN  <<idx \div 12, (idx % 12) + 1>>

\* C3: generate_monthly_trends returns exactly months_back entries, the
\* months_back consecutive calendar months ending at the current month,
\* ascending.
C3_MonthlyTrendsConsecutiveMonths ==
    result.op = "generate_monthly_trends" =>
        /\ Len(result.val) = result.arg
        /\ \A i \in 1..Len(result.val) :
              result.val[i].month = MonthsBefore(today, result.arg - i)

RECURSIVE SumTotalDuration(_)
\* the sum of total_duration over a list of daily summaries
SumTotalDuration(summaries) ==
    IF summaries = <<>> THEN 0
    ELSE Head(summaries).total_duration + SumTotalDuration(Tail(summaries))

\* C1: the weekly result's total_duration equals the sum of total_duration
\* over its 7 daily summaries.
C1_WeeklyTotalIsSumOfDaily ==
    result.op = "generate_weekly_analytics" =>
        /\ Len(result.val.daily_summaries) = 7
        /\ result.val.total_duration = SumTotalDuration(result.val.daily_summaries)

\* C4: an operation during which a table query failed does not end with a
\* successful result; the failure reaches the caller.
C4_StorageFailurePropagates ==
    result.dbFailed => result.outcome # "ok"

\* C5: no analytics operation raises a division-by-zero error, whatever the
\* analysis period of the request and the goal targets of the user.
C5_NoDivisionByZero ==
    result.exc # "ZeroDivisionError"

\* the summed duration of the sessions of the analysis period that start in hour h
HourSum(period_days, h) ==
    LET sessions == GetStudySessionsByDateRange(store, today - period_days, today, result.dbFailed)
    IN  SumDur(SelectSeq(sessions, LAMBDA s : s.start = h))

\* C8: peak_hours has at most 3 hours in 0..23, by descending summed
\* duration, and of two hours with equal sums the smaller one comes first.
C8_PeakHoursOrdered ==
    (result.op = "generate_productivity_metrics" /\ result.outcome = "ok") =>
        LET peak_hours == result.val.peak_hours
        IN  /\ Len(peak_hours) <= 3
            /\ \A i \in DOMAIN peak_hours : peak_hours[i] \in 0..23
            /\ \A i, j \in DOMAIN peak_hours :
                  i < j =>
                      \/ HourSum(result.arg, peak_hours[i]) > HourSum(result.arg, peak_hours[j])
                      \/ /\ HourSum(result.arg, peak_hours[i]) = HourSum(result.arg, peak_hours[j])
                         /\ peak_hours[i] < peak_hours[j]

\* C9: the result of generate_weekly_analytics equals the result computed
\* from the sessions currently in the store, whatever calls came before.
C9_WeeklyResultFromCurrentStore ==
    (result.op = "generate_weekly_analytics" /\ ~result.dbFailed) =>
        result.val = ComputeWeeklyAnalytics(store, WeekStartOrDefault(result.arg, today), FALSE)

\* the items of the store whose date and time are parsable or absent
WellFormedItems ==
    SelectSeq(store, LAMBDA item : item.dateForm # "malformed" /\ item.startForm # "malformed")

\* C10: an item with an unparsable date or time never aborts a computation:
\* the operation succeeds with the result computed from the other items.
C10_MalformedItemIsExcluded ==
    /\ result.exc \notin {"ValueError", "TypeError"}
    /\ result.op = "get_study_streak_data" =>
          result.val = GetStudyStreakDataValue(WellFormedItems, today, result.dbFailed)
    /\ (result.op = "generate_weekly_analytics" /\ ~enableCache) =>
          result.val = ComputeWeeklyAnalytics(WellFormedItems,
                           WeekStartOrDefault(result.arg, today), result.dbFailed)

\* C11: a summary request whose start date is after its end date is rejected
\* as invalid; it never ends as a successful result.
C11_InvertedRangeIsRejected ==
    (result.op = "get_analytics_summary" /\ result.arg[1] > result.arg[2]) =>
        /\ result.outcome = "invalid"
        /\ result.status = 400

\* C12: a comparison period other than week/month and an export format other
\* than json/csv are answered with status 400.
C12_UnsupportedSelectorIs400 ==
    /\ (result.op = "get_comparison_data" /\ result.arg \notin {"week", "month"}) =>
          result.status = 400
    /\ (result.op = "export_analytics_data" /\ result.arg \notin {"json", "csv"}) =>
          result.status = 400

\* the summed duration of the well-parsed sessions of the store dated in [from, to]
DurationWithin(from, to) ==
    LET sessions == ParseTimerItems(SelectSeq(store, LAMBDA item : item.src = "timer"))
                        \o ParseRecordItems(SelectSeq(store, LAMBDA item : item.src = "record"))
    IN  SumDur(SelectSeq(sessions, LAMBDA s : from <= s.date /\ s.date <= to))

\* C13: the weekly_comparison chart has 4 points, oldest week first, and the
\* y of each point, the current week's too, is the summed duration of the
\* sessions dated within that Monday-to-Sunday week, divided by 60.
C13_WeeklyComparisonChartPerWeek ==
    (/\ result.op = "generate_chart_data"
     /\ result.arg[1] = "weekly_comparison"
     /\ ~result.dbFailed) =>
        /\ Len(result.val) = 4
        /\ \A k \in 1..4 :
              LET week_start == today - (Weekday(today) + 7 * (4 - k))
              IN  /\ result.val[k].x = <<MonthOf(week_start), DayOf(week_start)>>
                  /\ result.val[k].y = [num |-> DurationWithin(week_start, week_start + 6),
                                        den |-> 60]

\* the sessions a chart of the last period_days days is drawn from
ChartSessions(period_days) ==
    GetStudySessionsByDateRange(store, today - period_days, today, result.dbFailed)

\* C14: the hourly distribution series has exactly 24 points, hours 0..23 in
\* order, each with the summed duration of the sessions starting in that hour
\* (0 when there is none); the daily duration series of [start, end] has
\* (end - start).days + 1 points, one per calendar day, ascending.
C14_ChartSeriesLengths ==
    /\ (result.op = "generate_chart_data" /\ result.arg[1] = "hourly_distribution") =>
          /\ Len(result.val) = 24
          /\ \A i \in 1..24 :
                /\ result.val[i].x = i - 1
                /\ result.val[i].y =
                      SumDur(SelectSeq(ChartSessions(result.arg[2]), LAMBDA s : s.start = i - 1))
    /\ result.op = "get_hourly_distribution" =>
          /\ Len(result.val) = 24
          /\ \A i \in 1..24 :
                /\ result.val[i].date = i - 1
                /\ result.val[i].value.den = 60
                /\ result.val[i].value.num =
                      SumDur(SelectSeq(
                          GetStudyDataForPeriod(store, today - (result.arg - 1), today,
                                                result.dbFailed),
                          LAMBDA s : s.startForm = "iso" /\ s.start = i - 1))
    /\ (result.op = "generate_chart_data" /\ result.arg[1] = "daily_duration") =>
          /\ Len(result.val) = result.arg[2] + 1
          /\ \A i \in 1..Len(result.val) :
                /\ result.val[i].x = (today - result.arg[2]) + (i - 1)
                /\ result.val[i].y.den = 60
                /\ result.val[i].y.num =
                      SumDur(SelectSeq(ChartSessions(result.arg[2]),
                                       LAMBDA s : s.date = result.val[i].x))

\* an hourly distribution chart with an hour that has sessions and one that has none
C14_Witness ==
    /\ result.op = "generate_chart_data"
    /\ result.arg[1] = "hourly_distribution"
    /\ Len(result.val) = 24
    /\ \E i, j \in 1..24 : result.val[i].y > 0 /\ result.val[j].y = 0

\* the sessions the weekly result of the current state was computed from
WeekSessionList ==
    LET week_start == WeekStartOrDefault(result.arg, today)
    IN  GetStudySessionsByDateRange(store, week_start, week_start + 6, result.dbFailed)

\* the positions of the sessions of the list dated d
IndicesOn(sessions, d) == {i \in DOMAIN sessions : sessions[i].date = d}

RECURSIVE SumDurOver(_, _)
\* the summed duration of the sessions at the positions I
SumDurOver(sessions, I) ==
    IF I = {} THEN 0
    ELSE LET i == CHOOSE j \in I : TRUE
         IN  sessions[i].dur + SumDurOver(sessions, I \ {i})

\* C15: _calculate_daily_summaries emits one DailySummary per calendar day of
\* [from, to], ascending; a day without sessions has zero total, count and
\* average and no subjects, a day with sessions has the sum, the count and
\* the subjects of exactly the sessions dated that day, and their average
\* rounded to one decimal.
C15_DailySummariesPerDay ==
    (result.op = "generate_weekly_analytics" /\ ~enableCache) =>
        LET week_start == WeekStartOrDefault(result.arg, today)
            summaries == result.val.daily_summaries
        IN  /\ Len(summaries) = 7
            /\ \A k \in 1..7 :
                  LET on == IndicesOn(WeekSessionList, week_start + (k - 1))
                      summary == summaries[k]
                  IN  /\ summary.date = week_start + (k - 1)
                      /\ summary.session_count = Cardinality(on)
                      /\ summary.total_duration = SumDurOver(WeekSessionList, on)
                      /\ summary.subjects = {WeekSessionList[i].subject : i \in on}
                      /\ on = {} => summary.average_session_duration = 0
                      /\ on # {} =>
                            LET diff == summary.average_session_duration * Cardinality(on)
                                            - 10 * summary.total_duration
                            IN  2 * diff <= Cardinality(on) /\ 2 * (0 - diff) <= Cardinality(on)

\* a weekly result with a day of two sessions and a day of none
C15_Witness ==
    /\ result.op = "generate_weekly_analytics"
    /\ \E k, l \in 1..7 :
          /\ result.val.daily_summaries[k].session_count = 2
          /\ result.val.daily_summaries[k].total_duration = 75
          /\ result.val.daily_summaries[l].session_count = 0

\* the total duration of a list of sessions or dictionaries
TotalOf(sessions) == SumDurOver(sessions, DOMAIN sessions)

ProductivityResult ==
    /\ result.op \in {"generate_productivity_metrics", "analyze_custom_productivity"}
    /\ result.outcome = "ok"

\* the analysis period of the productivity result of the current state
AnalysisPeriod ==
    IF result.op = "generate_productivity_metrics" THEN result.arg
    ELSE IF result.arg[1] # NoDate /\ result.arg[2] # NoDate
         THEN (result.arg[2] - result.arg[1]) + 1 ELSE 30

\* the sessions the productivity result of the current state was computed from
ProductivitySessions ==
    GetStudySessionsByDateRange(store, today - AnalysisPeriod, today, result.dbFailed)

\* the place of a message in the rule order
RuleRank(message) ==
    CASE message \in {"lengthen_sessions", "shorten_sessions"} -> 1
      [] message = "increase_frequency" -> 2
      [] message = "try_earlier_hours" -> 3
      [] OTHER -> 4

\* C17: the suggestions are never empty and follow the rule order (session
\* length, frequency, late peak hours); a rule gives its message exactly when
\* it triggers, and the generic message is there exactly when no rule
\* triggered, then alone.
C17_SuggestionsFollowRules ==
    ProductivityResult =>
        LET suggestions == result.val.improvement_suggestions
            given == Range(suggestions)
            length == result.val.optimal_session_length
            peak_hours == result.val.peak_hours
            total_sessions == Len(ProductivitySessions)
            period_days == AnalysisPeriod
        IN  /\ suggestions # <<>>
            /\ Cardinality(given) = Len(suggestions)
            /\ \A i, j \in DOMAIN suggestions :
                  i < j => RuleRank(suggestions[i]) < RuleRank(suggestions[j])
            /\ "lengthen_sessions" \in given <=> length < 25
            /\ "shorten_sessions" \in given <=> length > 60
            /\ "increase_frequency" \in given <=>
                  (period_days < 0 \/ 2 * total_sessions < period_days)
            /\ "try_earlier_hours" \in given <=>
                  (peak_hours # <<>> /\ \A i \in DOMAIN peak_hours : peak_hours[i] >= 20)
            /\ "maintain_pattern" \in given <=> Len(suggestions) = 1 /\ RuleRank(suggestions[1]) = 4
            /\ "maintain_pattern" \in given <=>
                  ~ \/ length < 25
                    \/ length > 60
                    \/ period_days < 0
                    \/ 2 * total_sessions < period_days
                    \/ (peak_hours # <<>> /\ \A i \in DOMAIN peak_hours : peak_hours[i] >= 20)

\* productivity results with the generic message alone, reached with sessions in the store
C17_Witness ==
    /\ ProductivityResult
    /\ store # <<>>
    /\ result.val.improvement_suggestions = <<"maintain_pattern">>

\* v is the element at index floor(K/2) of the durations sorted ascending
IsUpperMedian(v, sessions) ==
    LET K == Len(sessions)
        below == Cardinality({i \in DOMAIN sessions : sessions[i].dur < v})
        upto == Cardinality({i \in DOMAIN sessions : sessions[i].dur <= v})
    IN  /\ \E i \in DOMAIN sessions : sessions[i].dur = v
        /\ below <= K \div 2
        /\ upto >= (K \div 2) + 1
        /\ \E lo, hi \in DOMAIN sessions :
              /\ \A i \in DOMAIN sessions :
                    sessions[lo].dur <= sessions[i].dur /\ sessions[i].dur <= sessions[hi].dur
              /\ sessions[lo].dur <= v /\ v <= sessions[hi].dur

\* C18: for K >= 1 sessions optimal_session_length is the element at index
\* floor(K/2) of the durations sorted ascending, within [min, max] of the
\* durations; for K = 0 it is 0.
C18_OptimalLengthIsUpperMedian ==
    /\ ProductivityResult =>
          IF ProductivitySessions = <<>>
          THEN result.val.optimal_session_length = 0
          ELSE IsUpperMedian(result.val.optimal_session_length, ProductivitySessions)
    /\ result.op = "get_productivity_insights" =>
          LET study_data == GetStudyDataForPeriod(store, today - (result.arg - 1), today,
                                                  result.dbFailed)
          IN  IF study_data = <<>>
              THEN result.val.preferred_session_length = 0
              ELSE IsUpperMedian(result.val.preferred_session_length, study_data)

\* a productivity result over three sessions whose durations were met out of order
C18_Witness ==
    /\ ProductivityResult
    /\ Len(ProductivitySessions) = 3
    /\ ProductivitySessions[1].dur > ProductivitySessions[2].dur
    /\ result.val.optimal_session_length = ProductivitySessions[3].dur
    /\ ProductivitySessions[3].dur > ProductivitySessions[2].dur
    /\ ProductivitySessions[3].dur < ProductivitySessions[1].dur

\* the positions of the sessions of a subject in the list
IndicesOf(sessions, subject) == {i \in DOMAIN sessions : sessions[i].subject = subject}

\* the position at which a subject is first seen in the list
FirstSeen(sessions, subject) ==
    CHOOSE i \in IndicesOf(sessions, subject) : \A j \in IndicesOf(sessions, subject) : i <= j

\* subject a ranks before subject b: more total duration, or as much and seen first
RanksBefore(sessions, a, b) ==
    LET da == SumDurOver(sessions, IndicesOf(sessions, a))
        db == SumDurOver(sessions, IndicesOf(sessions, b))
    IN  da > db \/ (da = db /\ FirstSeen(sessions, a) < FirstSeen(sessions, b))

\* top_subjects of the weekly result holds the (at most) 5 first subjects of
\* the ranking, in ranking order, each with its total duration and session count
TopSubjectsRanked ==
    LET sessions == WeekSessionList
        top == result.val.top_subjects
        subjects == {sessions[i].subject : i \in DOMAIN sessions}
        listed == {top[i].subject : i \in DOMAIN top}
    IN  /\ Len(top) = Min(5, Cardinality(subjects))
        /\ Cardinality(listed) = Len(top)
        /\ listed \subseteq subjects
        /\ \A i \in DOMAIN top :
              /\ top[i].duration = SumDurOver(sessions, IndicesOf(sessions, top[i].subject))
              /\ top[i].sessions = Cardinality(IndicesOf(sessions, top[i].subject))
        /\ \A i, j \in DOMAIN top :
              i < j => RanksBefore(sessions, top[i].subject, top[j].subject)
        /\ \A a \in listed, b \in subjects \ listed : RanksBefore(sessions, a, b)

\* C19 as stated: at most 5 subjects by descending total duration, equal
\* totals in first-seen order, and each percentage is exactly
\* duration / total_duration * 100 (0 when total_duration is 0).
C19_TopSubjectsExactPercentage ==
    (result.op = "generate_weekly_analytics" /\ ~enableCache) =>
        /\ TopSubjectsRanked
        /\ \A i \in DOMAIN result.val.top_subjects :
              LET entry == result.val.top_subjects[i]
                  total_duration == TotalOf(WeekSessionList)
              IN  IF total_duration = 0 THEN entry.percentage = 0
                  ELSE entry.percentage * total_duration = 1000 * entry.duration

\* C19, amended: the same ranking, and each percentage is
\* duration / total_duration * 100 rounded to one decimal (0 when
\* total_duration is 0).
C19_TopSubjectsRoundedPercentage ==
    (result.op = "generate_weekly_analytics" /\ ~enableCache) =>
        /\ TopSubjectsRanked
        /\ \A i \in DOMAIN result.val.top_subjects :
              LET entry == result.val.top_subjects[i]
                  total_duration == TotalOf(WeekSessionList)
                  diff == entry.percentage * total_duration - 1000 * entry.duration
              IN  IF total_duration = 0 THEN entry.percentage = 0
                  ELSE 2 * diff <= total_duration /\ 2 * (0 - diff) <= total_duration

\* a weekly result over six subjects, two of the listed ones with equal totals
C19_Witness ==
    /\ result.op = "generate_weekly_analytics"
    /\ Cardinality({WeekSessionList[i].subject : i \in DOMAIN WeekSessionList}) = 6
    /\ Len(result.val.top_subjects) = 5
    /\ \E i \in 1..4 :
          result.val.top_subjects[i].duration = result.val.top_subjects[i + 1].duration

\* C20: for every week of daily summaries the consistency score returned by
\* _calculate_study_consistency lies in [0, 100] and is not below the base
\* study_days / N * 100 capped at 100 (the stability bonus is non-negative);
\* for an empty list of summaries the score is 0.
C20_ConsistencyScoreInRange ==
    /\ CalculateStudyConsistency(<<>>) = [lo |-> 0, hi |-> 0]
    /\ result.op = "generate_weekly_analytics" =>
          LET summaries == result.val.daily_summaries
              score == result.val.study_consistency
              study_days == Cardinality({k \in DOMAIN summaries : summaries[k].total_duration > 0})
          IN  /\ 0 <= score.lo
              /\ score.lo <= score.hi
              /\ score.hi <= 1000
              /\ Len(summaries) * score.hi >= Min(1000 * Len(summaries), 1000 * study_days)

\* a weekly result with a session on each of the seven days and a positive
\* stability bonus: base 100 plus the bonus exceeds 100 before the cap
C20_Witness ==
    /\ result.op = "generate_weekly_analytics"
    /\ \A k \in 1..7 : result.val.daily_summaries[k].total_duration > 0
    /\ \E k, l \in 1..7 : result.val.daily_summaries[k].total_duration
                              # result.val.daily_summaries[l].total_duration
    /\ StabilityBonus(StudyDurations(result.val.daily_summaries)).lo > 0
    /\ result.val.study_consistency = [lo |-> 1000, hi |-> 1000]

\* the daily durations of Scenario B
ScenarioB == <<60, 0, 30, 0, 90, 45, 0>>

DailyTotals(summaries) == [k \in DOMAIN summaries |-> summaries[k].total_duration]

\* C21 as stated: for a week whose daily durations are [60,0,30,0,90,45,0]
\* the engine reports total_duration = 225 and study_days = 5, and the
\* consistency score rests on the base 500/7 (71.4; with the stability bonus
\* of the four study days, 2.1, the score lies between 73.5 and 73.6).
C21_ScenarioBFiveStudyDays ==
    /\ (/\ result.op = "generate_weekly_report"
        /\ result.outcome = "ok"
        /\ DailyTotals(result.val.weekly_stats.daily_sessions) = ScenarioB) =>
            /\ result.val.weekly_stats.total_duration = 225
            /\ result.val.weekly_stats.study_days = 5
    /\ (/\ result.op = "generate_weekly_analytics"
        /\ DailyTotals(result.val.daily_summaries) = ScenarioB) =>
            /\ result.val.total_duration = 225
            /\ 735 <= result.val.study_consistency.lo
            /\ result.val.study_consistency.hi <= 736

\* C21 with the count the code gives: for a week whose daily durations are
\* [60,0,30,0,90,45,0] the engine reports total_duration = 225 and
\* study_days = 4, and the consistency score rests on the base 400/7 (57.1;
\* with the stability bonus 2.1 the score lies between 59.2 and 59.4).
C21_ScenarioBFourStudyDays ==
    /\ (/\ result.op = "generate_weekly_report"
        /\ result.outcome = "ok"
        /\ DailyTotals(result.val.weekly_stats.daily_sessions) = ScenarioB) =>
            /\ result.val.weekly_stats.total_duration = 225
            /\ result.val.weekly_stats.study_days = 4
    /\ (/\ result.op = "generate_weekly_analytics"
        /\ DailyTotals(result.val.daily_summaries) = ScenarioB) =>
            /\ result.val.total_duration = 225
            /\ 592 <= result.val.study_consistency.lo
            /\ result.val.study_consistency.hi <= 594
            /\ 7 * (result.val.study_consistency.lo - 21) <= 4000
            /\ 7 * (result.val.study_consistency.hi - 22) >= 4000

\* a weekly report of the backend over the Scenario B week, its Friday made
\* of two sessions
C21_Witness ==
    /\ result.op = "generate_weekly_report"
    /\ result.outcome = "ok"
    /\ DailyTotals(result.val.weekly_stats.daily_sessions) = ScenarioB
    /\ result.val.weekly_stats.daily_sessions[5].session_count = 2

\* the store with the start_time of the timer items that lack one set to noon
TimersStartedAtNoon ==
    [i \in DOMAIN store |->
        IF store[i].src = "timer" /\ store[i].startForm = "absent"
        THEN [store[i] EXCEPT !.start = 12, !.startForm = "iso"] ELSE store[i]]

\* the store without the timer items that lack a start_time
WithoutUnstartedTimers ==
    SelectSeq(store, LAMBDA item : ~(item.src = "timer" /\ item.startForm = "absent"))

\* C22: a timer session without start_time is left out of the per-hour
\* grouping only: the weekly total_duration and daily summaries (with their
\* session counts) and the session-length median are those of the store where
\* the session has a start_time, the peak hours those of the store without it.
C22_UnstartedSessionCountsElsewhere ==
    /\ (result.op = "generate_weekly_analytics" /\ ~enableCache) =>
          LET started == ComputeWeeklyAnalytics(TimersStartedAtNoon,
                             WeekStartOrDefault(result.arg, today), result.dbFailed)
          IN  /\ result.val.total_duration = started.total_duration
              /\ result.val.daily_summaries = started.daily_summaries
    /\ result.op = "generate_productivity_metrics" =>
          /\ result.val.optimal_session_length =
                GenerateProductivityMetrics(TimersStartedAtNoon, today, result.arg,
                                            result.dbFailed).val.optimal_session_length
          /\ result.val.peak_hours =
                GenerateProductivityMetrics(WithoutUnstartedTimers, today, result.arg,
                                            result.dbFailed).val.peak_hours

\* no stored item is dated (by its key or its date attribute) within from..to
NoItemBetween(from, to) ==
    \A i \in DOMAIN store : store[i].date \notin from..to /\ store[i].skDate \notin from..to

ZeroDailySummary(summary) ==
    /\ summary.total_duration = 0
    /\ summary.session_count = 0
    /\ summary.subjects = {}
    /\ summary.average_session_duration = 0

ZeroProductivity(op, period_days) ==
    (result.op = op /\ NoItemBetween(today - period_days, today)) =>
        /\ result.outcome = "ok"
        /\ result.val.peak_hours = <<>>
        /\ result.val.optimal_session_length = 0
        /\ result.val.focus_score = 0

\* C23 (Scenario A): with no sessions in the range an operation reads, the
\* operation completes without raising and returns zeroed aggregates: weekly
\* total 0 with 7 zero daily summaries and consistency 0, comparison change 0
\* and percentage 0, streaks 0/0, peak_hours empty, optimal_session_length 0,
\* focus_score 0, monthly totals 0.
C23_EmptyInputGivesZeros ==
    /\ (result.op = "generate_weekly_analytics" /\ ~enableCache
            /\ NoItemBetween(WeekStartOrDefault(result.arg, today) - 7,
                             WeekStartOrDefault(result.arg, today) + 6)) =>
          /\ result.outcome = "ok"
          /\ result.val.total_duration = 0
          /\ Len(result.val.daily_summaries) = 7
          /\ \A k \in 1..7 : ZeroDailySummary(result.val.daily_summaries[k])
          /\ result.val.study_consistency = [lo |-> 0, hi |-> 0]
          /\ result.val.comparison_with_previous_week.duration_change = 0
          /\ result.val.comparison_with_previous_week.duration_change_percentage = 0
    /\ (result.op = "get_study_streak_data" /\ NoItemBetween(today - StreakWindow, today)) =>
          /\ result.outcome = "ok"
          /\ result.val.current_streak = 0
          /\ result.val.longest_streak = 0
    /\ (result.op = "get_study_streaks" /\ store = <<>>) =>
          /\ result.outcome = "ok"
          /\ result.val.current_streak = 0
          /\ result.val.longest_streak = 0
    /\ (result.op = "get_analytics_summary" /\ store = <<>>) =>
          /\ result.outcome = "ok"
          /\ result.val.total_study_time = 0
          /\ result.val.current_streak = 0
          /\ result.val.longest_streak = 0
    /\ (result.op = "get_comparison_data" /\ result.arg \in {"week", "month"} /\ store = <<>>) =>
          /\ result.outcome = "ok"
          /\ result.val.duration_change = 0
          /\ result.val.duration_change_percentage = 0
    /\ result.op = "generate_productivity_metrics" =>
          ZeroProductivity("generate_productivity_metrics", result.arg)
    /\ result.op = "analyze_custom_productivity" =>
          ZeroProductivity("analyze_custom_productivity",
                           IF result.arg[1] # NoDate /\ result.arg[2] # NoDate
                           THEN (result.arg[2] - result.arg[1]) + 1 ELSE 30)
    /\ (result.op = "generate_monthly_trends" /\ store = <<>>) =>
          /\ result.outcome = "ok"
          /\ \A k \in DOMAIN result.val :
                /\ result.val[k].total_duration = 0
                /\ result.val[k].session_count = 0
                /\ result.val[k].study_days = 0

\* C24: a request of the records or roadmap API whose event carries no user
\* id is answered 401 before routing, whatever its method, path or body: no
\* table call is made and the table is left as it was
C24_UnauthenticatedIs401 ==
    [][(result'.op = "lambda_handler" /\ GetUserId(result'.arg) = NoUser)
           => (result'.status = 401 /\ result'.calls = 0 /\ table' = table)]_vars

\* an unauthenticated DELETE of a record that exists and is active
C24_Witness ==
    /\ result.op = "lambda_handler"
    /\ GetUserId(result.arg) = NoUser
    /\ result.arg.api = "records" /\ result.arg.method = "DELETE" /\ result.arg.id = 1
    /\ result.status = 401
    /\ \E i \in DOMAIN table : table[i].kind = "RECORD" /\ table[i].id = 1 /\ table[i].status = "active"
    /\ \E i \in DOMAIN table : table[i].kind = "ROADMAP"

\* a duration_minutes that is not a number, or a number that is 0 or less
BadDuration(value) == value.t \in {"text", "null"} \/ value.v <= 0

\* the bodies create_record has to reject: not JSON, without 'title' or
\* 'duration_minutes', or with a bad duration
RejectedRecord(body) ==
    \/ body.json = "invalid"
    \/ /\ body.json \in {"none", "object"}
       /\ \/ "title" \notin DOMAIN BodyData(body)
          \/ "duration_minutes" \notin DOMAIN BodyData(body)
          \/ BadDuration(BodyData(body).duration_minutes)

\* the template requests that reach create_record with a bad duration of
\* the user
RejectedTemplate(body) ==
    /\ body.json = "object"
    /\ "template_type" \in DOMAIN body.data
    /\ body.data.template_type \in {"reading", "coding", "video"}
       \/ (body.data.template_type = "roadmap" /\ HasRoadmapItem(body.data))
    /\ "duration_minutes" \in DOMAIN body.data
    /\ BadDuration(body.data.duration_minutes)

\* C25: create_record answers 400 and leaves the table unchanged (no record
\* written, no roadmap progress updated) when the body is not valid JSON,
\* lacks 'title' or 'duration_minutes', or has a duration that is not a
\* number or is 0 or less, also when the body comes from
\* create_record_from_template with a duration of the user
C25_InvalidRecordIs400 ==
    [][(/\ result'.op = "lambda_handler"
        /\ result'.arg.api = "records" /\ result'.arg.method = "POST"
        /\ GetUserId(result'.arg) # NoUser
        /\ IF result'.arg.path = "/from-template" THEN RejectedTemplate(result'.arg.body)
           ELSE RejectedRecord(result'.arg.body))
           => (result'.status = 400 /\ result'.calls = 0 /\ table' = table)]_vars

\* the record of an id has been deleted
Deleted(t, id) == \E i \in DOMAIN t : t[i].kind = "RECORD" /\ t[i].id = id /\ t[i].status = "deleted"

\* the step answers a get_record, update_record or delete_record on the id
AnswersOnRecord(r, id) ==
    /\ r.op = "lambda_handler"
    /\ r.arg.api = "records" /\ r.arg.method \in {"GET", "PUT", "DELETE"} /\ r.arg.id = id

\* the step answers a list_records
AnswersList(r) ==
    /\ r.op = "lambda_handler"
    /\ r.arg.api = "records" /\ r.arg.method = "GET" /\ r.arg.id = NoId /\ r.status = 200

\* C26 as stated: once delete_record has succeeded for a record, every later
\* get_record, update_record and delete_record on its id returns 404,
\* list_records never includes it and its status never returns to 'active'
C26_DeletedAlways404 ==
    [][\A id \in 1..(MaxRecords + 1) :
           Deleted(table, id) =>
               /\ AnswersOnRecord(result', id) => result'.status = 404
               /\ AnswersList(result') => \A k \in DOMAIN result'.val.records :
                                              result'.val.records[k] # id
               /\ Deleted(table', id)]_vars

\* C26: once delete_record has succeeded for a record, no later get_record,
\* update_record or delete_record on its id succeeds or changes the table:
\* it is answered 404, or 400 for an update whose body is not JSON (checked
\* before the lookup), or 500 when its table call fails; list_records never
\* includes the record and its status never returns to 'active'
C26_DeletedStaysDeleted ==
    [][\A id \in 1..(MaxRecords + 1) :
           Deleted(table, id) =>
               /\ AnswersOnRecord(result', id) =>
                      /\ result'.status =
                             IF result'.arg.method = "PUT" /\ result'.arg.body.json = "invalid"
                             THEN 400
                             ELSE IF result'.dbFailed THEN 500 ELSE 404
                      /\ table' = table
               /\ AnswersList(result') => \A k \in DOMAIN result'.val.records :
                                              result'.val.records[k] # id
               /\ Deleted(table', id)]_vars

\* an update with a valid body of a deleted record, answered 404, next to an
\* active record
C26_Witness ==
    /\ Deleted(table, 1)
    /\ \E i \in DOMAIN table : table[i].kind = "RECORD" /\ table[i].status = "active"
    /\ AnswersOnRecord(result, 1)
    /\ result.arg.method = "PUT" /\ result.arg.body.json = "object"
    /\ "title" \in DOMAIN result.arg.body.data
    /\ result.status = 404

\* the records of the table that name an item of a roadmap
RecordsOnItem(t, roadmap_id, item_title) ==
    SelectSeq(t, LAMBDA item : /\ item.kind = "RECORD"
                               /\ item.roadmap_id = roadmap_id
                               /\ item.roadmap_item_title = item_title)

\* C27: when two create_record requests that name the same roadmap item run
\* concurrently, after both have finished the completed_hours of the item is
\* its initial value (0 for item 'a') plus the hours of both records, and the
\* completed_hours of the roadmap is the sum over its items
C27_NoLostProgressUpdate ==
    LET records == RecordsOnItem(table, 1, "a")
        roadmap == table[1]
        k == FirstItemTitled(roadmap.items, "a")
    IN  (/\ \A client \in DOMAIN requests : requests[client].pc = "idle"
         /\ table # <<>> /\ table[1].kind = "ROADMAP"
         /\ Len(records) = 2)
            => /\ roadmap.items[k].completed_hours =
                      SumVal([r \in DOMAIN records |-> [val |-> records[r].duration_minutes]])
               /\ roadmap.completed_hours =
                      SumVal([l \in DOMAIN roadmap.items |->
                                 [val |-> roadmap.items[l].completed_hours]])

\* the entry of a key that the cache holds
EntryOf(c, key) == c[CacheIndex(c, key)]

\* C28: after any sequence of set, get, delete, exists, clear and
\* cleanup_expired the cache holds at most CacheLimit entries (100 in the
\* code); a set that overflows the limit evicts one entry, one with the least
\* created_at, and keeps every other entry; the entry it has just written is
\* always kept
C28_SetKeepsLimitEvictingOldest ==
    [][/\ Len(cache') <= CacheLimit
       /\ (result'.op = "set" /\ now' = now) =>
              LET key == result'.arg.key
              IN  /\ CacheHas(cache', key)
                  /\ EntryOf(cache', key).created_at = now
                  /\ IF ~CacheHas(cache, key) /\ Len(cache) + 1 > CacheLimit
                     THEN \E e \in DOMAIN cache :
                              /\ ~CacheHas(cache', cache[e].key)
                              /\ \A j \in DOMAIN cache :
                                     cache[e].created_at <= cache[j].created_at
                              /\ \A j \in DOMAIN cache \ {e} :
                                     /\ CacheHas(cache', cache[j].key)
                                     /\ EntryOf(cache', cache[j].key) = cache[j]
                     ELSE \A j \in DOMAIN cache : CacheHas(cache', cache[j].key)]_vars

\* a set that overflowed a cache whose entries were written at different
\* times
C28_Witness ==
    /\ result.op = "set"
    /\ result.val.overflow
    /\ Len(cache) = CacheLimit
    /\ CacheHas(cache, result.arg.key)
    /\ \E i, j \in DOMAIN cache : cache[i].created_at < cache[j].created_at

\* the TTL a set uses
TtlOf(ttl) == IF ttl = 0 THEN CacheTtlSeconds ELSE ttl

\* C29: get never returns the data of an entry whose expires_at is earlier
\* than the current time: for an expired key get returns None and exists
\* False, the call removes the entry, and a set of the key starts a fresh
\* TTL with hit_count 0
C29_ExpiredIsNeverReturned ==
    [][now' = now =>
           /\ result'.op \in {"get", "exists"} =>
                  LET key == result'.arg.key
                      expired == CacheHas(cache, key) /\ now > EntryOf(cache, key).expires_at
                  IN  /\ expired => ~CacheHas(cache', key)
                      /\ result'.op = "get" =>
                             /\ expired => ~result'.val.hit
                             /\ result'.val.hit =>
                                    /\ CacheHas(cache, key)
                                    /\ result'.val.data = EntryOf(cache, key).data
                      /\ result'.op = "exists" => (expired => ~result'.val.exists)
           /\ result'.op = "set" =>
                  /\ CacheHas(cache', result'.arg.key)
                  /\ EntryOf(cache', result'.arg.key).expires_at = now + TtlOf(result'.arg.ttl)
                  /\ EntryOf(cache', result'.arg.key).hit_count = 0]_vars

\* a get of a key that was held and had expired
C29_Witness ==
    /\ result.op = "get"
    /\ result.val.held /\ ~result.val.hit
    /\ ~CacheHas(cache, result.arg.key)
    /\ cache # <<>>

\* C30: every goal entry track_goals returns for a positive target has an
\* achievement_rate within [0, 100] and remaining_to_goal = max(0, target -
\* current), never negative; is_achieved holds exactly when current >=
\* target, which is exactly when remaining_to_goal = 0 and achievement_rate
\* = 100
C30_GoalEntryIsConsistent ==
    (result.op = "track_goals" /\ result.outcome = "ok") =>
        \A k \in DOMAIN result.val :
            LET goal == result.val[k]
                rate == goal.achievement_rate
            IN  goal.target_value > 0 =>
                    /\ 0 <= rate[1] /\ rate[1] <= 100 * rate[2]
                    /\ goal.remaining_to_goal = Max(0, goal.target_value - goal.current_value)
                    /\ goal.remaining_to_goal >= 0
                    /\ goal.is_achieved <=> goal.current_value >= goal.target_value
                    /\ goal.current_value >= goal.target_value
                           <=> (goal.remaining_to_goal = 0 /\ rate[1] = 100 * rate[2])

\* a daily goal exceeded next to a weekly goal not yet reached
C30_Witness ==
    /\ result.op = "track_goals" /\ result.outcome = "ok"
    /\ Len(result.val) = 2
    /\ result.val[1].target_value > 0 /\ result.val[1].current_value > result.val[1].target_value
    /\ result.val[1].is_achieved
    /\ result.val[2].target_value > 0 /\ ~result.val[2].is_achieved
    /\ result.val[2].current_value > 0

====
